---- MODULE Spec2Model ----
(***************************************************************************)
(* EntryDesk: the athlete store (database.py), the FastAPI handlers        *)
(* (api.py), the spreadsheet validator (excel_utils.py) and the Streamlit  *)
(* forms that write athletes (app.py).                                     *)
(*                                                                         *)
(* Text is a sequence of one-character strings, so that strip, lower,      *)
(* split and join are computed and not assumed.  A date is a natural       *)
(* number.  Python's None is the value None, pandas' NaN the value NaN.    *)
(***************************************************************************)
EXTENDS Integers, Sequences, FiniteSets, TLC

\* ------------------------------------------------------------------ bounds

\* The number of unique ids asked for in one behaviour.
MaxInserts == 2

\* ------------------------------------------------------------------- text

None == <<"<None>">>
NaN == <<"<NaN>">>

UpperCase == <<"A", "B", "C", "D", "E", "F", "G", "H", "I", "J", "K", "L", "M",
               "N", "O", "P", "Q", "R", "S", "T", "U", "V", "W", "X", "Y", "Z">>
LowerCase == <<"a", "b", "c", "d", "e", "f", "g", "h", "i", "j", "k", "l", "m",
               "n", "o", "p", "q", "r", "s", "t", "u", "v", "w", "x", "y", "z">>

\* str.isspace for one character
IsSpace(c) == c \in {" ", "\t", "\n"}

\* str.lower for one character
LowerChar(c) ==
  IF \E i \in 1..Len(UpperCase) : UpperCase[i] = c
  THEN LowerCase[CHOOSE i \in 1..Len(UpperCase) : UpperCase[i] = c]
  ELSE c

\* str.upper for one character
UpperChar(c) ==
  IF \E i \in 1..Len(LowerCase) : LowerCase[i] = c
  THEN UpperCase[CHOOSE i \in 1..Len(LowerCase) : LowerCase[i] = c]
  ELSE c

\* str.lower
lower(s) == [i \in 1..Len(s) |-> LowerChar(s[i])]

\* str.capitalize: first character upper-cased, the rest lower-cased
capitalize(s) ==
  [i \in 1..Len(s) |-> IF i = 1 THEN UpperChar(s[i]) ELSE LowerChar(s[i])]

RECURSIVE lstrip(_)
lstrip(s) ==
  IF s # <<>> /\ IsSpace(Head(s)) THEN lstrip(Tail(s)) ELSE s

RECURSIVE rstrip(_)
rstrip(s) ==
  IF s # <<>> /\ IsSpace(s[Len(s)]) THEN rstrip(SubSeq(s, 1, Len(s) - 1)) ELSE s

\* str.strip
strip(s) == lstrip(rstrip(s))

\* str.split(): the maximal runs of non-space characters, in order.
\* words: the finished words, cur: the word being read.
RECURSIVE SplitFrom(_, _, _)
SplitFrom(s, words, cur) ==
  IF s = <<>>
  THEN IF cur = <<>> THEN words ELSE Append(words, cur)
  ELSE IF IsSpace(Head(s))
       THEN SplitFrom(Tail(s), IF cur = <<>> THEN words ELSE Append(words, cur), <<>>)
       ELSE SplitFrom(Tail(s), words, Append(cur, Head(s)))

split(s) == SplitFrom(s, <<>>, <<>>)

\* " ".join(words)
RECURSIVE join(_)
join(words) ==
  IF words = <<>> THEN <<>>
  ELSE IF Len(words) = 1 THEN Head(words)
  ELSE Head(words) \o <<" ">> \o join(Tail(words))

\* normalize_string leaving the inner spaces as they are
normalize_string_no_collapse(s) ==
  IF s = None \/ s = <<>> THEN <<>> ELSE lower(strip(s))

\* database.normalize_string
normalize_string(s) ==
  IF s = None \/ s = <<>> THEN <<>> ELSE join(split(lower(strip(s))))

\* ------------------------------------------------------------ spreadsheet

\* A cell of a sheet: empty (NaN), a text, or a date.
NaNCell == [t |-> "nan"]
StrCell(s) == [t |-> "str", v |-> s]
DateCell(d) == [t |-> "date", v |-> d]

\* pd.isna
isna(cell) == cell.t = "nan"

\* The texts pd.to_datetime reads as a date, with the date each stands for.
DateTexts == { <<"1">>, <<"2">> }
DateOf(s) == IF s = <<"1">> THEN 1 ELSE 2

\* pd.to_datetime(text, errors='coerce'): a date cell, or NaT
to_datetime(s) ==
  IF strip(s) \in DateTexts THEN DateCell(DateOf(strip(s))) ELSE NaNCell

\* str(cell)
str(cell) ==
  IF cell.t = "str" THEN cell.v
  ELSE IF cell.t = "date" THEN (IF cell.v = 1 THEN <<"1">> ELSE <<"2">>)
  ELSE <<"n", "a", "n">>

Txt_name == <<"n", "a", "m", "e">>
Txt_dob == <<"d", "o", "b">>
Txt_dojo == <<"d", "o", "j", "o">>
Txt_belt == <<"b", "e", "l", "t">>
Txt_day == <<"d", "a", "y">>
Txt_gender == <<"g", "e", "n", "d", "e", "r">>

required_columns == <<Txt_name, Txt_dob, Txt_dojo, Txt_belt, Txt_day, Txt_gender>>

valid_belts == { <<"w", "h", "i", "t", "e">>, <<"y", "e", "l", "l", "o", "w">>,
                 <<"b", "l", "u", "e">>, <<"p", "u", "r", "p", "l", "e">>,
                 <<"g", "r", "e", "e", "n">>, <<"b", "r", "o", "w", "n">>,
                 <<"b", "l", "a", "c", "k">> }
male_tokens == { <<"m", "a", "l", "e">>, <<"m">>, <<"b", "o", "y">>, <<"b">> }
female_tokens == { <<"f", "e", "m", "a", "l", "e">>, <<"f">>, <<"g", "i", "r", "l">>, <<"g">> }
saturday_tokens == { <<"s", "a", "t">>, <<"s", "a", "t", "u", "r", "d", "a", "y">> }
\* sunday_tokens without the short form
sunday_tokens_long_only == { <<"s", "u", "n", "d", "a", "y">> }

sunday_tokens == { <<"s", "u", "n">>, <<"s", "u", "n", "d", "a", "y">> }

Saturday == <<"S", "a", "t", "u", "r", "d", "a", "y">>
Sunday == <<"S", "u", "n", "d", "a", "y">>
Male == <<"M", "a", "l", "e">>
Female == <<"F", "e", "m", "a", "l", "e">>

\* The canonical spellings of the three enumerated fields.
belt_options == { capitalize(b) : b \in valid_belts }
day_options == { Saturday, Sunday }
gender_options == { Male, Female }

\* A sheet as pd.read_excel returns it: the header texts, and the data rows in
\* file order.  A row holds one cell per required column and one cell standing
\* for the sheet's other columns; idx is the row's 0-based position.
\* df.columns.str.lower().str.strip()
clean_columns(columns) == { strip(lower(c)) : c \in columns }

\* [col for col in required_columns if col not in df.columns]
missing_columns(columns) ==
  SelectSeq(required_columns, LAMBDA col : col \notin clean_columns(columns))

\* df.dropna(how='all'): a row goes when every one of its cells is empty
RECURSIVE dropna_all(_)
dropna_all(rows) ==
  IF rows = <<>> THEN <<>>
  ELSE LET r == Head(rows)
           blank == /\ isna(r.name) /\ isna(r.dob) /\ isna(r.dojo) /\ isna(r.belt)
                    /\ isna(r.day) /\ isna(r.gender) /\ isna(r.extra)
       IN  IF blank THEN dropna_all(Tail(rows)) ELSE <<r>> \o dropna_all(Tail(rows))

\* pd.isna(cell) or str(cell).strip() == ''
is_blank(cell) == isna(cell) \/ strip(str(cell)) = <<>>

\* RowError numbering the rows from 1, without the header's line
RowError_no_header_offset(row_num, msg) ==
  [kind |-> "validation", row |-> row_num - 1, msg |-> msg]

RowError(row_num, msg) == [kind |-> "validation", row |-> row_num, msg |-> msg]

\* validate_row comparing the belt with valid_belts without .lower()
validate_row_case_sensitive(r) ==
  LET row_num == r.idx + 2
      belt_val == strip(str(r.belt))
      day_val == lower(strip(str(r.day)))
      gender_val == lower(strip(str(r.gender)))
      dob == IF r.dob.t = "str" THEN to_datetime(r.dob.v) ELSE r.dob
      Bad(msg) == [ok |-> FALSE, row |-> r, error |-> RowError(row_num, msg)]
  IN  IF is_blank(r.name) THEN Bad("Missing name")
      ELSE IF isna(r.dob) THEN Bad("Missing DOB")
      ELSE IF isna(dob) THEN Bad("Invalid DOB format")
      ELSE IF is_blank(r.dojo) THEN Bad("Missing dojo")
      ELSE IF is_blank(r.belt) THEN Bad("Missing belt")
      ELSE IF belt_val \notin valid_belts THEN Bad("Invalid belt")
      ELSE IF is_blank(r.day) THEN Bad("Missing day")
      ELSE IF day_val \notin saturday_tokens \cup sunday_tokens THEN Bad("Invalid day")
      ELSE IF is_blank(r.gender) THEN Bad("Missing gender")
      ELSE IF gender_val \notin male_tokens \cup female_tokens THEN Bad("Invalid gender")
      ELSE [ok |-> TRUE,
            row |-> [r EXCEPT !.dob = dob,
                              !.belt = StrCell(capitalize(belt_val)),
                              !.day = StrCell(IF day_val \in saturday_tokens
                                              THEN Saturday ELSE Sunday),
                              !.gender = StrCell(IF gender_val \in male_tokens
                                                 THEN Male ELSE Female)],
            error |-> RowError(row_num, "")]

\* One pass of the row loop of validate_excel_data: [ok, row, error].
\* The checks run in the order name, dob, dojo, belt, day, gender; each runs only
\* while skip_reason is unset, and the row keeps the values normalised so far.
validate_row(r) ==
  LET row_num == r.idx + 2
      belt_val == lower(strip(str(r.belt)))
      day_val == lower(strip(str(r.day)))
      gender_val == lower(strip(str(r.gender)))
      dob == IF r.dob.t = "str" THEN to_datetime(r.dob.v) ELSE r.dob
      Bad(msg) == [ok |-> FALSE, row |-> r, error |-> RowError(row_num, msg)]
  IN  IF is_blank(r.name) THEN Bad("Missing name")
      ELSE IF isna(r.dob) THEN Bad("Missing DOB")
      ELSE IF isna(dob) THEN Bad("Invalid DOB format")
      ELSE IF is_blank(r.dojo) THEN Bad("Missing dojo")
      ELSE IF is_blank(r.belt) THEN Bad("Missing belt")
      ELSE IF belt_val \notin valid_belts THEN Bad("Invalid belt")
      ELSE IF is_blank(r.day) THEN Bad("Missing day")
      ELSE IF day_val \notin saturday_tokens \cup sunday_tokens THEN Bad("Invalid day")
      ELSE IF is_blank(r.gender) THEN Bad("Missing gender")
      ELSE IF gender_val \notin male_tokens \cup female_tokens THEN Bad("Invalid gender")
      ELSE [ok |-> TRUE,
            row |-> [r EXCEPT !.dob = dob,
                              !.belt = StrCell(capitalize(belt_val)),
                              !.day = StrCell(IF day_val \in saturday_tokens
                                              THEN Saturday ELSE Sunday),
                              !.gender = StrCell(IF gender_val \in male_tokens
                                                 THEN Male ELSE Female)],
            error |-> RowError(row_num, "")]

\* valid_rows giving up at the first row that fails
RECURSIVE valid_rows_until_failure(_)
valid_rows_until_failure(rows) ==
  IF rows = <<>> THEN <<>>
  ELSE LET v == validate_row(Head(rows))
       IN  IF v.ok THEN <<v.row>> \o valid_rows_until_failure(Tail(rows)) ELSE <<>>

RECURSIVE valid_rows(_)
valid_rows(rows) ==
  IF rows = <<>> THEN <<>>
  ELSE LET v == validate_row(Head(rows))
       IN  (IF v.ok THEN <<v.row>> ELSE <<>>) \o valid_rows(Tail(rows))

RECURSIVE skipped_rows(_)
skipped_rows(rows) ==
  IF rows = <<>> THEN <<>>
  ELSE LET v == validate_row(Head(rows))
       IN  (IF v.ok THEN <<>> ELSE <<v.error>>) \o skipped_rows(Tail(rows))

\* excel_utils.validate_excel_data: [columns, df, errors].  With a required
\* column missing it returns the frame it was given, rows and all.
validate_excel_data(sheet) ==
  IF missing_columns(sheet.columns) # <<>>
  THEN [columns |-> clean_columns(sheet.columns),
        df |-> sheet.rows,
        errors |-> << [kind |-> "missing_columns", row |-> 0,
                       missing |-> missing_columns(sheet.columns)] >>]
  ELSE [columns |-> clean_columns(sheet.columns),
        df |-> valid_rows(dropna_all(sheet.rows)),
        errors |-> skipped_rows(dropna_all(sheet.rows))]

\* excel_utils.process_excel_file: a file pd.read_excel cannot read gives an
\* empty frame and one error
process_excel_file(file) ==
  IF ~file.readable
  THEN [columns |-> {}, df |-> <<>>,
        errors |-> << [kind |-> "read_error", row |-> 0,
                       msg |-> "Error reading Excel file"] >>]
  ELSE validate_excel_data(file.sheet)

\* ------------------------------------------------------------------ store

VARIABLES
  ENTRYDESK_WRITES_ENABLED, \* the write-lock flag, read once from the environment
  athletes,                 \* the athletes table, in primary-key order
  pc,                       \* where each request stands
  loc,                      \* the locals of each request in flight
  resp,                     \* the answer to the request that ended last
  allocated,                \* history: every value get_next_unique_id returned
  environ,                  \* the environment variables the modules read, as text
  coaches,                  \* the coaches table, in primary-key order
  session_state             \* st.session_state of each browser session

vars == <<ENTRYDESK_WRITES_ENABLED, athletes, pc, loc, resp, allocated, environ, coaches,
          session_state>>

\* What no handler changes: the configuration read when the module loads.
configuration == <<ENTRYDESK_WRITES_ENABLED, environ>>

\* What the handlers of the athletes leave alone.
logins == <<coaches, session_state>>

\* The clients: two HTTP connections or browser sessions.
Procs == {"p1", "p2"}

\* The ids of the rows of the coaches table.
Coaches == {1, 2}

\* Coach(...): a row of the coaches table, with the columns the handlers read.
Coach(id, email, is_admin) == [id |-> id, email |-> email, is_admin |-> is_admin]

\* The coaches table the requests about athletes run against.
CoachRows == << Coach(1, <<"c", "@", "x">>, 0), Coach(2, <<"d", "@", "y">>, 0) >>

\* st.session_state as app.py initialises it; coach_id 0 is None.
LoggedOut == [logged_in |-> FALSE, coach_id |-> 0, coach_email |-> None, is_admin |-> FALSE]

\* No allowlist, no admin, nobody logged in.
NoLogin ==
  /\ environ = [ADMIN_EMAILS |-> <<>>, COACH_EMAILS |-> <<>>, COACH_DOMAINS |-> <<>>,
                ENFORCE_COACH_ALLOWLIST |-> <<>>]
  /\ coaches = CoachRows
  /\ session_state = [p \in Procs |-> LoggedOut]

\* No row: what .first() returns when nothing matches.
NoRow == [id |-> 0]

RECURSIVE MaxOf(_)
MaxOf(S) ==
  IF S = {} THEN 0
  ELSE LET x == CHOOSE y \in S : TRUE
           m == MaxOf(S \ {x})
       IN  IF x > m THEN x ELSE m

Range(seq) == { seq[i] : i \in 1..Len(seq) }

\* A handler that takes every coach_id for a coach
coach_exists_unchecked(coach_id) == TRUE

\* db.query(Coach).filter(Coach.id == coach_id).first()
coach_exists(coach_id) == \E c \in Range(coaches) : c.id = coach_id

\* get_next_unique_id counting from 0 on an empty table
get_next_unique_id_from_zero(db) ==
  IF db # <<>> THEN MaxOf({ a.unique_id : a \in Range(db) }) + 1 ELSE 0

\* get_next_unique_id that leaves one id out after the highest
get_next_unique_id_leaves_gap(db) ==
  IF db # <<>> THEN MaxOf({ a.unique_id : a \in Range(db) }) + 2 ELSE 1

\* get_next_unique_id without its "+ 1"
get_next_unique_id_no_increment(db) ==
  IF db # <<>> THEN MaxOf({ a.unique_id : a \in Range(db) }) ELSE 1

\* database.get_next_unique_id
get_next_unique_id(db) ==
  IF db # <<>> THEN MaxOf({ a.unique_id : a \in Range(db) }) + 1 ELSE 1

\* check_duplicate_athlete comparing the names and dojos as they are spelled
check_duplicate_athlete_exact(db, name, dob, dojo, coach_id) ==
  LET query == SelectSeq(db, LAMBDA a :
                 a.dob = dob /\ (coach_id # 0 => a.coach_id = coach_id))
      hits == SelectSeq(query, LAMBDA a : a.name = name /\ a.dojo = dojo)
  IN  IF hits = <<>> THEN NoRow ELSE Head(hits)

\* check_duplicate_athlete without the filter on coach_id
check_duplicate_athlete_unscoped(db, name, dob, dojo, coach_id) ==
  LET normalized_name == normalize_string(name)
      normalized_dojo == IF dojo # None /\ dojo # <<>> THEN normalize_string(dojo) ELSE None
      hit(a) == /\ a.dob = dob
                /\ normalize_string(a.name) = normalized_name
                /\ (normalized_dojo # None /\ normalized_dojo # <<>>
                      => normalize_string(a.dojo) = normalized_dojo)
      hits == SelectSeq(db, hit)
  IN  IF hits = <<>> THEN NoRow ELSE Head(hits)

\* database.check_duplicate_athlete; coach_id = 0 stands for no coach_id given.
\* The first row, in table order, with the same dob (and coach), the same
\* normalised name and, when a dojo is given, the same normalised dojo.
check_duplicate_athlete(db, name, dob, dojo, coach_id) ==
  LET normalized_name == normalize_string(name)
      normalized_dojo == IF dojo # None /\ dojo # <<>> THEN normalize_string(dojo) ELSE None
      query == SelectSeq(db, LAMBDA a :
                 a.dob = dob /\ (coach_id # 0 => a.coach_id = coach_id))
      hit(a) == /\ normalize_string(a.name) = normalized_name
                /\ (normalized_dojo # None /\ normalized_dojo # <<>>
                      => normalize_string(a.dojo) = normalized_dojo)
      hits == SelectSeq(query, hit)
  IN  IF hits = <<>> THEN NoRow ELSE Head(hits)

\* The primary key the database gives a new row.
next_id(db) == MaxOf({ a.id : a \in Range(db) }) + 1

\* The athletes table without its UNIQUE constraint on unique_id
unique_id_taken_unconstrained(db, unique_id) == FALSE

\* The UNIQUE constraint on athletes.unique_id: TRUE when the INSERT breaks it.
unique_id_taken(db, unique_id) == \E a \in Range(db) : a.unique_id = unique_id

\* Athlete(...): the row as the handler builds it, before the INSERT.
Athlete(unique_id, name, dob, dojo, belt, day, gender, coach_id) ==
  [id |-> 0, unique_id |-> unique_id, name |-> name, dob |-> dob, dojo |-> dojo,
   belt |-> belt, day |-> day, gender |-> gender, coach_id |-> coach_id]

\* db.add(row); db.commit() when the INSERT is accepted
inserted(db, row) == Append(db, [row EXCEPT !.id = next_id(db)])

\* db.delete(row); db.commit()
deleted(db, id) == SelectSeq(db, LAMBDA a : a.id # id)

\* db.query(Athlete).filter(Athlete.id == athlete_id).first()
athlete_by_id(db, id) ==
  LET hits == SelectSeq(db, LAMBDA a : a.id = id)
  IN  IF hits = <<>> THEN NoRow ELSE Head(hits)

\* ----------------------------------------------------------------- inputs

\* The names, dojos and dates of birth that requests carry.  N1 and N2 differ in
\* letter case and in leading and repeated inner spaces only, D1 and D2 in
\* letter case and a trailing space only.
N1 == <<"a", " ", "b">>
N2 == <<" ", "A", " ", " ", "b">>
N3 == <<"a", "b">>
D1 == <<"d">>
D2 == <<"D", " ">>
D3 == <<"g">>

Yellow == <<"Y", "e", "l", "l", "o", "w">>
Black == <<"B", "l", "a", "c", "k">>

\* api.AthleteCreate: the request bodies of POST /api/athletes/{coach_id}.
\* belt and day are any strings.  The second body is the athlete of the first,
\* spelled differently.
AthleteCreate ==
  { [name |-> N1, dob |-> 1, dojo |-> D1, belt |-> Yellow, day |-> Saturday],
    [name |-> N2, dob |-> 1, dojo |-> D2, belt |-> <<"y", "e", "l", "l", "o", "w">>,
     day |-> <<"s", "a", "t">>],
    [name |-> N3, dob |-> 1, dojo |-> D1, belt |-> Black, day |-> Sunday] }

\* What the add and edit forms submit: belt, day and gender come from select
\* boxes.  The second form is the athlete of the first, spelled differently.
Forms ==
  { [name |-> N1, dob |-> 1, dojo |-> D1, belt |-> Yellow, day |-> Saturday, gender |-> Male],
    [name |-> N2, dob |-> 1, dojo |-> D2, belt |-> Black, day |-> Sunday, gender |-> Female],
    [name |-> N1, dob |-> 2, dojo |-> D3, belt |-> Yellow, day |-> Sunday, gender |-> Female] }

\* The coach ids a request may name; 3 is no row of the coaches table.
CoachIds == Coaches \cup {3}

\* The primary keys a request may name.
AthleteIds == 1..MaxInserts

RawCells(name, dobcell, dojo, belt, day, gender) ==
  [name |-> StrCell(name), dob |-> dobcell, dojo |-> StrCell(dojo),
   belt |-> StrCell(belt), day |-> StrCell(day), gender |-> StrCell(gender),
   extra |-> NaNCell]

\* The data rows of the sheets: three valid rows (R2 is the athlete of R1,
\* spelled differently and with its date as text), a row with an invalid day and
\* an empty row.
R1 == RawCells(N1, DateCell(1), D1, <<"y", "e", "l", "l", "o", "w">>, <<"s", "a", "t">>, <<"m">>)
R2 == RawCells(N2, StrCell(<<" ", "1">>), D2, <<" ", "B", "L", "A", "C", "K">>,
               <<"S", "u", "n", "d", "a", "y">>, <<"G", "i", "r", "l">>)
R3 == RawCells(N3, DateCell(1), D1, Yellow, Saturday, Male)
R4 == RawCells(N1, DateCell(2), D3, Yellow, <<"M", "o", "n", "d", "a", "y">>, Male)
BlankRow ==
  [name |-> NaNCell, dob |-> NaNCell, dojo |-> NaNCell, belt |-> NaNCell,
   day |-> NaNCell, gender |-> NaNCell, extra |-> NaNCell]

\* A row with nothing in the six required columns and a note in another one.
NoteRow == [BlankRow EXCEPT !.extra = StrCell(<<"z">>)]

WithIdx(c, i) ==
  [name |-> c.name, dob |-> c.dob, dojo |-> c.dojo, belt |-> c.belt, day |-> c.day,
   gender |-> c.gender, extra |-> c.extra, idx |-> i]

\* The header row, as the template has it.
TemplateHeader ==
  { <<"N", "a", "m", "e">>, <<"D", "O", "B">>, <<" ", "D", "o", "j", "o">>,
    <<"B", "e", "l", "t">>, <<"D", "a", "y">>, <<"G", "e", "n", "d", "e", "r", " ">> }

Sheet(h, rs) ==
  [readable |-> TRUE,
   sheet |-> [columns |-> h, rows |-> [i \in 1..Len(rs) |-> WithIdx(rs[i], i - 1)]]]

\* The files a client may upload: sheets under the template's header, a sheet
\* without the belt column, and a file that is no spreadsheet.
Files ==
  { Sheet(TemplateHeader, <<R1>>),
    Sheet(TemplateHeader, <<R2>>),
    Sheet(TemplateHeader, <<R1, R2>>),
    Sheet(TemplateHeader, <<R2, R3>>),
    Sheet(TemplateHeader, <<R4, R3>>),
    Sheet(TemplateHeader, <<BlankRow, R1>>),
    Sheet(TemplateHeader \ { <<"B", "e", "l", "t">> }, <<R3>>),
    [readable |-> FALSE, sheet |-> [columns |-> {}, rows |-> <<>>]] }

\* The files of the import runs: two athletes, one athlete in two spellings, an
\* invalid row before a valid one, a row with text in an extra column only, a
\* sheet without the belt column, an empty sheet and a file that is no
\* spreadsheet.
ImportFiles ==
  { Sheet(TemplateHeader, <<R1, R3>>),
    Sheet(TemplateHeader, <<R1, R2>>),
    Sheet(TemplateHeader, <<R4, R3>>),
    Sheet(TemplateHeader, <<NoteRow, R1>>),
    Sheet(TemplateHeader, <<BlankRow, R4>>),
    Sheet(TemplateHeader, <<R3>>),
    Sheet(TemplateHeader \ { <<"B", "e", "l", "t">> }, <<R3>>),
    Sheet(TemplateHeader, <<>>),
    [readable |-> FALSE, sheet |-> [columns |-> {}, rows |-> <<>>]] }

\* process_excel_file of every file, computed once.
Processed == [f \in Files \cup ImportFiles |-> process_excel_file(f)]

\* --------------------------------------------------------------- requests

Idle == [op |-> "idle"]

\* The rows a request in flight may still ask an id for.
pending(p) ==
  IF pc[p] \in {"add_athlete_alloc"} THEN 1
  ELSE IF pc[p] \in {"upload_check", "upload_alloc"} THEN Len(loc[p].df)
  ELSE IF pc[p] = "upload_commit" THEN Len(loc[p].df) - 1
  ELSE 0

RECURSIVE SumPending(_)
SumPending(S) ==
  IF S = {} THEN 0
  ELSE LET p == CHOOSE q \in S : TRUE IN pending(p) + SumPending(S \ {p})

\* How many more ids the behaviour may ask for.
AllocsLeft == MaxInserts - Len(allocated) - SumPending(Procs)

\* The request ends with this answer.  The API answers with an HTTP status
\* ("200", "403", "404", "500"), the pages of app.py with the message they show.
Reply(p, op, status, body) ==
  /\ pc' = [pc EXCEPT ![p] = "idle"]
  /\ loc' = [loc EXCEPT ![p] = Idle]
  /\ resp' = [op |-> op, status |-> status, body |-> body]

\* if not ENTRYDESK_WRITES_ENABLED: raise HTTPException(403, "Registrations are closed")
writes_disabled(p, op) ==
  /\ Reply(p, op, "403", "Registrations are closed")
  /\ UNCHANGED <<athletes, allocated>>

\* POST /api/athletes/{coach_id}, up to the call of get_next_unique_id
create_athlete(p, coach_id, athlete) ==
  /\ pc[p] = "idle"
  /\ IF ~ENTRYDESK_WRITES_ENABLED
     THEN writes_disabled(p, "create_athlete")
     ELSE IF ~coach_exists(coach_id)
     THEN /\ Reply(p, "create_athlete", "404", "Coach not found")
          /\ UNCHANGED <<athletes, allocated>>
     ELSE LET unique_id == get_next_unique_id(athletes)
          IN  /\ AllocsLeft >= 1
              /\ pc' = [pc EXCEPT ![p] = "create_athlete_commit"]
              /\ loc' = [loc EXCEPT ![p] =
                     [op |-> "create_athlete",
                      row |-> Athlete(unique_id, athlete.name, athlete.dob, athlete.dojo,
                                      athlete.belt, athlete.day, None, coach_id)]]
              /\ allocated' = Append(allocated, unique_id)
              /\ UNCHANGED <<athletes, resp>>
  /\ UNCHANGED <<configuration, logins>>

\* db.add(db_athlete); db.commit(); db.refresh(db_athlete); return db_athlete.
\* Nothing catches the IntegrityError of a taken unique_id: the client gets 500.
create_athlete_commit(p) ==
  /\ pc[p] = "create_athlete_commit"
  /\ IF unique_id_taken(athletes, loc[p].row.unique_id)
     THEN /\ Reply(p, "create_athlete", "500", "IntegrityError")
          /\ UNCHANGED athletes
     ELSE /\ athletes' = inserted(athletes, loc[p].row)
          /\ Reply(p, "create_athlete", "200", athletes'[Len(athletes')])
  /\ UNCHANGED <<configuration, logins, allocated>>

\* delete_athlete that answers without db.delete and db.commit
delete_athlete_no_commit(p, athlete_id) ==
  /\ pc[p] = "idle"
  /\ IF ~ENTRYDESK_WRITES_ENABLED
     THEN writes_disabled(p, "delete_athlete")
     ELSE IF athlete_by_id(athletes, athlete_id) = NoRow
     THEN /\ Reply(p, "delete_athlete", "404", "Athlete not found")
          /\ UNCHANGED <<athletes, allocated>>
     ELSE /\ Reply(p, "delete_athlete", "200", "Athlete deleted successfully")
          /\ UNCHANGED <<athletes, allocated>>
  /\ UNCHANGED <<configuration, logins>>

\* delete_athlete without its check of ENTRYDESK_WRITES_ENABLED
delete_athlete_unguarded(p, athlete_id) ==
  /\ pc[p] = "idle"
  /\ IF athlete_by_id(athletes, athlete_id) = NoRow
     THEN /\ Reply(p, "delete_athlete", "404", "Athlete not found")
          /\ UNCHANGED <<athletes, allocated>>
     ELSE /\ athletes' = deleted(athletes, athlete_id)
          /\ Reply(p, "delete_athlete", "200", "Athlete deleted successfully")
          /\ UNCHANGED allocated
  /\ UNCHANGED <<configuration, logins>>

\* DELETE /api/athletes/{athlete_id}
delete_athlete(p, athlete_id) ==
  /\ pc[p] = "idle"
  /\ IF ~ENTRYDESK_WRITES_ENABLED
     THEN writes_disabled(p, "delete_athlete")
     ELSE IF athlete_by_id(athletes, athlete_id) = NoRow
     THEN /\ Reply(p, "delete_athlete", "404", "Athlete not found")
          /\ UNCHANGED <<athletes, allocated>>
     ELSE /\ athletes' = deleted(athletes, athlete_id)
          /\ Reply(p, "delete_athlete", "200", "Athlete deleted successfully")
          /\ UNCHANGED allocated
  /\ UNCHANGED <<configuration, logins>>

\* GET /api/athletes/{coach_id}
get_athletes(p, coach_id) ==
  /\ pc[p] = "idle"
  /\ Reply(p, "get_athletes", "200", SelectSeq(athletes, LAMBDA a : a.coach_id = coach_id))
  /\ UNCHANGED <<configuration, logins, athletes, allocated>>

\* GET /api/stats/{coach_id}
get_stats(p, coach_id) ==
  LET mine == SelectSeq(athletes, LAMBDA a : a.coach_id = coach_id)
  IN  /\ pc[p] = "idle"
      /\ Reply(p, "get_stats", "200",
               [total_athletes |-> Len(mine),
                saturday |-> Len(SelectSeq(mine, LAMBDA a : a.day = Saturday)),
                sunday |-> Len(SelectSeq(mine, LAMBDA a : a.day = Sunday)),
                by_belt |-> [b \in { a.belt : a \in Range(mine) } |->
                               Len(SelectSeq(mine, LAMBDA a : a.belt = b))]])
      /\ UNCHANGED <<configuration, logins, athletes, allocated>>

\* ------------------------------------------------------ the pages of app.py

\* What a page shows while ENTRYDESK_WRITES_ENABLED is off: the dashboard's
\* show_writes_disabled_message, and nothing that writes.
page_writes_disabled(p, op) ==
  /\ Reply(p, op, "writes_disabled", "Registrations are closed")
  /\ UNCHANGED <<athletes, allocated>>

\* add_athlete_tab, the submitted form up to the duplicate check
add_athlete_tab(p, coach_id, form) ==
  /\ pc[p] = "idle"
  /\ IF ~ENTRYDESK_WRITES_ENABLED
     THEN page_writes_disabled(p, "add_athlete_tab")
     ELSE IF form.name = <<>> \/ form.dojo = <<>>
     THEN /\ Reply(p, "add_athlete_tab", "invalid", "Please fill in all required fields")
          /\ UNCHANGED <<athletes, allocated>>
     ELSE LET existing == check_duplicate_athlete(athletes, strip(form.name), form.dob,
                                                  strip(form.dojo), 0)
          IN  IF existing # NoRow
              THEN /\ Reply(p, "add_athlete_tab", "duplicate", existing.unique_id)
                   /\ UNCHANGED <<athletes, allocated>>
              ELSE /\ AllocsLeft >= 1
                   /\ pc' = [pc EXCEPT ![p] = "add_athlete_alloc"]
                   /\ loc' = [loc EXCEPT ![p] =
                          [op |-> "add_athlete_tab",
                           row |-> Athlete(0, strip(form.name), form.dob, strip(form.dojo),
                                           form.belt, form.day, form.gender, coach_id)]]
                   /\ UNCHANGED <<athletes, allocated, resp>>
  /\ UNCHANGED <<configuration, logins>>

\* unique_id = get_next_unique_id(db)
add_athlete_alloc(p) ==
  /\ pc[p] = "add_athlete_alloc"
  /\ LET unique_id == get_next_unique_id(athletes)
     IN  /\ pc' = [pc EXCEPT ![p] = "add_athlete_commit"]
         /\ loc' = [loc EXCEPT ![p].row.unique_id = unique_id]
         /\ allocated' = Append(allocated, unique_id)
  /\ UNCHANGED <<configuration, logins, athletes, resp>>

\* db.add(db_athlete); db.commit(), or on an exception db.rollback() and the
\* message "Error adding athlete"
add_athlete_commit(p) ==
  /\ pc[p] = "add_athlete_commit"
  /\ IF unique_id_taken(athletes, loc[p].row.unique_id)
     THEN /\ Reply(p, "add_athlete_tab", "error", "Error adding athlete")
          /\ UNCHANGED athletes
     ELSE /\ athletes' = inserted(athletes, loc[p].row)
          /\ Reply(p, "add_athlete_tab", "ok", loc[p].row.unique_id)
  /\ UNCHANGED <<configuration, logins, allocated>>

\* An edit that also gives the row a new unique_id
save_edit_renumbers(p, op, athlete_id, form) ==
  /\ pc[p] = "idle"
  /\ IF ~ENTRYDESK_WRITES_ENABLED
     THEN page_writes_disabled(p, op)
     ELSE IF athlete_by_id(athletes, athlete_id) = NoRow
     THEN /\ Reply(p, op, "not_found", "Athlete not found")
          /\ UNCHANGED <<athletes, allocated>>
     ELSE IF form.name = <<>> \/ form.dojo = <<>>
     THEN /\ Reply(p, op, "invalid", "Please fill in all required fields")
          /\ UNCHANGED <<athletes, allocated>>
     ELSE /\ athletes' = [i \in 1..Len(athletes) |->
                            IF athletes[i].id = athlete_id
                            THEN [athletes[i] EXCEPT !.unique_id = get_next_unique_id(athletes),
                                                     !.name = strip(form.name),
                                                     !.dob = form.dob,
                                                     !.dojo = strip(form.dojo),
                                                     !.belt = form.belt,
                                                     !.day = form.day,
                                                     !.gender = form.gender]
                            ELSE athletes[i]]
          /\ Reply(p, op, "ok", athlete_id)
          /\ UNCHANGED allocated
  /\ UNCHANGED <<configuration, logins>>

\* The edit dialogs: the form's "Save Changes" and then "Yes, Save".  The four
\* dialogs (coach and admin, inline and modal) run the same statements.
save_edit(p, op, athlete_id, form) ==
  /\ pc[p] = "idle"
  /\ IF ~ENTRYDESK_WRITES_ENABLED
     THEN page_writes_disabled(p, op)
     ELSE IF athlete_by_id(athletes, athlete_id) = NoRow
     THEN /\ Reply(p, op, "not_found", "Athlete not found")
          /\ UNCHANGED <<athletes, allocated>>
     ELSE IF form.name = <<>> \/ form.dojo = <<>>
     THEN /\ Reply(p, op, "invalid", "Please fill in all required fields")
          /\ UNCHANGED <<athletes, allocated>>
     ELSE /\ athletes' = [i \in 1..Len(athletes) |->
                            IF athletes[i].id = athlete_id
                            THEN [athletes[i] EXCEPT !.name = strip(form.name),
                                                     !.dob = form.dob,
                                                     !.dojo = strip(form.dojo),
                                                     !.belt = form.belt,
                                                     !.day = form.day,
                                                     !.gender = form.gender]
                            ELSE athletes[i]]
          /\ Reply(p, op, "ok", athlete_id)
          /\ UNCHANGED allocated
  /\ UNCHANGED <<configuration, logins>>

show_edit_modal_inline(p, athlete_id, form) ==
  save_edit(p, "show_edit_modal_inline", athlete_id, form)

show_edit_modal(p, athlete_id, form) ==
  save_edit(p, "show_edit_modal", athlete_id, form)

\* view_athletes_tab, "Yes, Delete" for one athlete
confirm_delete(p, athlete_id) ==
  /\ pc[p] = "idle"
  /\ IF ~ENTRYDESK_WRITES_ENABLED
     THEN page_writes_disabled(p, "confirm_delete")
     ELSE /\ athlete_by_id(athletes, athlete_id) # NoRow
          /\ athletes' = deleted(athletes, athlete_id)
          /\ Reply(p, "confirm_delete", "ok", athlete_id)
          /\ UNCHANGED allocated
  /\ UNCHANGED <<configuration, logins>>

\* view_athletes_tab, "Yes, Delete" for the selected athletes
confirm_delete_selected(p, selected) ==
  /\ pc[p] = "idle"
  /\ IF ~ENTRYDESK_WRITES_ENABLED
     THEN page_writes_disabled(p, "confirm_delete_selected")
     ELSE /\ athletes' = SelectSeq(athletes, LAMBDA a : a.id \notin selected)
          /\ Reply(p, "confirm_delete_selected", "ok", Len(athletes) - Len(athletes'))
          /\ UNCHANGED allocated
  /\ UNCHANGED <<configuration, logins>>

\* ---------------------------------------------------------------- uploads
\* upload_excel (api.py), upload_excel_tab and admin_upload_excel_tab (app.py)
\* run the same loop over the validated rows.  They differ in the coach_id
\* they hand to check_duplicate_athlete (the API its coach, the pages none) and
\* in what they record of a skipped or failed row.

IsApi(op) == op = "upload_excel"

\* The answer of an upload once its loop is through.
upload_result(l) ==
  IF IsApi(l.op)
  THEN [accepted |-> l.accepted, rejected |-> l.rejected, errors |-> l.errors,
        athletes |-> l.created]
  ELSE [accepted |-> l.accepted, skipped |-> l.skipped, errors |-> l.errors]

\* The file is processed; the loop starts at the first row of df, if any.
start_upload(p, op, coach_id, scope, file) ==
  LET r == Processed[file]
      l == [op |-> op, coach_id |-> coach_id, scope |-> scope, file |-> file,
            columns |-> r.columns,
            df |-> r.df, errors |-> r.errors, accepted |-> 0,
            rejected |-> Len(r.errors), skipped |-> 0, created |-> <<>>,
            row |-> NoRow]
  IN  IF r.df = <<>>
      THEN /\ Reply(p, op, IF IsApi(op) THEN "200" ELSE "no_valid_data", upload_result(l))
           /\ UNCHANGED <<athletes, allocated>>
      ELSE /\ Len(r.df) <= AllocsLeft
           /\ pc' = [pc EXCEPT ![p] = "upload_check"]
           /\ loc' = [loc EXCEPT ![p] = l]
           /\ UNCHANGED <<athletes, allocated, resp>>

\* POST /api/upload/{coach_id}
upload_excel(p, coach_id, file) ==
  /\ pc[p] = "idle"
  /\ IF ~ENTRYDESK_WRITES_ENABLED
     THEN writes_disabled(p, "upload_excel")
     ELSE IF ~coach_exists(coach_id)
     THEN /\ Reply(p, "upload_excel", "404", "Coach not found")
          /\ UNCHANGED <<athletes, allocated>>
     ELSE start_upload(p, "upload_excel", coach_id, coach_id, file)
  /\ UNCHANGED <<configuration, logins>>

\* upload_excel_tab, "Import Athletes": the rows go to the session's coach
upload_excel_tab(p, coach_id, file) ==
  /\ pc[p] = "idle"
  /\ IF ~ENTRYDESK_WRITES_ENABLED
     THEN page_writes_disabled(p, "upload_excel_tab")
     ELSE start_upload(p, "upload_excel_tab", coach_id, 0, file)
  /\ UNCHANGED <<configuration, logins>>

\* admin_upload_excel_tab, "Import Athletes": the rows go to the selected coach.
\* From there on it runs the statements of upload_excel_tab.
admin_upload_excel_tab(p, coach_id, file) ==
  /\ pc[p] = "idle"
  /\ IF ~ENTRYDESK_WRITES_ENABLED
     THEN page_writes_disabled(p, "admin_upload_excel_tab")
     ELSE start_upload(p, "admin_upload_excel_tab", coach_id, 0, file)
  /\ UNCHANGED <<configuration, logins>>

\* The loop moves to the next row, or the handler answers.
next_row(p, l) ==
  IF Len(l.df) = 1
  THEN Reply(p, l.op, IF IsApi(l.op) THEN "200" ELSE "imported", upload_result(l))
  ELSE /\ pc' = [pc EXCEPT ![p] = "upload_check"]
       /\ loc' = [loc EXCEPT ![p] = [l EXCEPT !.df = Tail(l.df), !.row = NoRow]]
       /\ UNCHANGED resp

\* except Exception that records the failed row and ends the loop there
row_failed_aborts(p) ==
  LET l == loc[p]
      r == Head(l.df)
      entry == IF IsApi(l.op)
               THEN [kind |-> "error",
                     name |-> IF Txt_name \in l.columns THEN str(r.name)
                              ELSE <<"u", "n", "k", "n", "o", "w", "n">>]
               ELSE [kind |-> "failed", row |-> r.idx + 2]
      m == [l EXCEPT !.errors = Append(l.errors, entry),
                     !.rejected = IF IsApi(l.op) THEN l.rejected + 1 ELSE l.rejected]
  IN  Reply(p, l.op, IF IsApi(l.op) THEN "200" ELSE "imported", upload_result(m))

\* except Exception: db.rollback(); the row is recorded as failed
row_failed(p) ==
  LET l == loc[p]
      r == Head(l.df)
      entry == IF IsApi(l.op)
               THEN [kind |-> "error",
                     name |-> IF Txt_name \in l.columns THEN str(r.name)
                              ELSE <<"u", "n", "k", "n", "o", "w", "n">>]
               ELSE [kind |-> "failed", row |-> r.idx + 2]
  IN  next_row(p, [l EXCEPT !.errors = Append(l.errors, entry),
                            !.rejected = IF IsApi(l.op) THEN l.rejected + 1 ELSE l.rejected])

\* The loop body up to the duplicate check.  A row of a frame that lacks the
\* name, dob or dojo column raises KeyError; a dob that is no date fails in the
\* query.
upload_check(p) ==
  /\ pc[p] = "upload_check"
  /\ LET l == loc[p]
         r == Head(l.df)
     IN  IF ~({Txt_name, Txt_dob, Txt_dojo} \subseteq l.columns) \/ r.dob.t # "date"
         THEN row_failed(p) /\ UNCHANGED <<athletes, allocated>>
         ELSE LET athlete_name == strip(str(r.name))
                  athlete_dob == r.dob.v
                  athlete_dojo == strip(str(r.dojo))
                  existing == check_duplicate_athlete(athletes, athlete_name, athlete_dob,
                                                      athlete_dojo, l.scope)
                  entry == IF IsApi(l.op)
                           THEN [kind |-> "duplicate", name |-> athlete_name,
                                 id |-> existing.unique_id]
                           ELSE [kind |-> "duplicate", row |-> r.idx + 2]
              IN  IF existing # NoRow
                  THEN /\ next_row(p, [l EXCEPT
                            !.errors = Append(l.errors, entry),
                            !.rejected = IF IsApi(l.op) THEN l.rejected + 1 ELSE l.rejected,
                            !.skipped = IF IsApi(l.op) THEN l.skipped ELSE l.skipped + 1])
                       /\ UNCHANGED <<athletes, allocated>>
                  ELSE /\ pc' = [pc EXCEPT ![p] = "upload_alloc"]
                       /\ UNCHANGED <<athletes, allocated, loc, resp>>
  /\ UNCHANGED <<configuration, logins>>

\* unique_id = get_next_unique_id(db), then the row is built; a frame that lacks
\* the gender, belt or day column raises KeyError here.
upload_alloc(p) ==
  /\ pc[p] = "upload_alloc"
  /\ LET l == loc[p]
         r == Head(l.df)
         unique_id == get_next_unique_id(athletes)
     IN  /\ allocated' = Append(allocated, unique_id)
         /\ IF ~({Txt_gender, Txt_belt, Txt_day} \subseteq l.columns)
            THEN row_failed(p)
            ELSE /\ pc' = [pc EXCEPT ![p] = "upload_commit"]
                 /\ loc' = [loc EXCEPT ![p].row =
                        Athlete(unique_id, strip(str(r.name)), r.dob.v, strip(str(r.dojo)),
                                strip(str(r.belt)), strip(str(r.day)), strip(str(r.gender)),
                                l.coach_id)]
                 /\ UNCHANGED resp
  /\ UNCHANGED <<configuration, logins, athletes>>

\* db.add(db_athlete); db.commit(); db.refresh(db_athlete)
upload_commit(p) ==
  /\ pc[p] = "upload_commit"
  /\ LET l == loc[p]
     IN  IF unique_id_taken(athletes, l.row.unique_id)
         THEN row_failed(p) /\ UNCHANGED athletes
         ELSE /\ athletes' = inserted(athletes, l.row)
              /\ next_row(p, [l EXCEPT !.created = Append(l.created, athletes'[Len(athletes')]),
                                       !.accepted = l.accepted + 1])
  /\ UNCHANGED <<configuration, logins, allocated>>

\* db.commit() raises although the table would take the row (the connection to
\* the database is lost, the disk is full): except Exception: db.rollback(); the
\* row is recorded as failed and the loop goes on.
upload_commit_error(p) ==
  /\ pc[p] = "upload_commit"
  /\ row_failed(p)
  /\ UNCHANGED <<configuration, logins, athletes, allocated>>

\* The server is started again with ENTRYDESK_WRITES_ENABLED set the other way
\* (parse_bool of the environment variable, read when the module loads).  The
\* database outlives the process.
restart ==
  /\ \A p \in Procs : pc[p] = "idle"
  /\ ENTRYDESK_WRITES_ENABLED' = ~ENTRYDESK_WRITES_ENABLED
  /\ UNCHANGED <<environ, logins, athletes, pc, loc, resp, allocated>>

\* ------------------------------------------------------------ specification

Init ==
  /\ ENTRYDESK_WRITES_ENABLED \in BOOLEAN
  /\ athletes = <<>>
  /\ pc = [p \in Procs |-> "idle"]
  /\ loc = [p \in Procs |-> Idle]
  /\ resp = [op |-> "none", status |-> "none", body |-> <<>>]
  /\ allocated = <<>>
  /\ NoLogin

\* One client, one request at a time, every handler and every input.
Next ==
  \/ restart
  \/ \E p \in {"p1"} :
       \/ \E c \in CoachIds, a \in AthleteCreate : create_athlete(p, c, a)
       \/ create_athlete_commit(p)
       \/ \E c \in CoachIds, f \in Files : upload_excel(p, c, f)
       \/ \E id \in AthleteIds : delete_athlete(p, id)
       \/ \E c \in CoachIds : get_athletes(p, c)
       \/ \E c \in CoachIds : get_stats(p, c)
       \/ \E c \in Coaches, f \in Forms : add_athlete_tab(p, c, f)
       \/ add_athlete_alloc(p)
       \/ add_athlete_commit(p)
       \/ \E id \in AthleteIds, f \in Forms : show_edit_modal_inline(p, id, f)
       \/ \E id \in AthleteIds, f \in Forms : show_edit_modal(p, id, f)
       \/ \E id \in AthleteIds : confirm_delete(p, id)
       \/ \E sel \in SUBSET AthleteIds : confirm_delete_selected(p, sel)
       \/ \E c \in Coaches, f \in Files : upload_excel_tab(p, c, f)
       \/ \E c \in Coaches, f \in Files : admin_upload_excel_tab(p, c, f)
       \/ upload_check(p)
       \/ upload_alloc(p)
       \/ upload_commit(p)

Spec == Init /\ [][Next]_vars

\* Two clients whose requests interleave query by query.  Both act for coach 1
\* and send the registrations of one athlete in two spellings and of another.
ConcFiles ==
  { Sheet(TemplateHeader, <<R1>>), Sheet(TemplateHeader, <<R2>>),
    Sheet(TemplateHeader, <<R1, R2>>) }

ConcNext ==
  \E p \in Procs :
    \/ \E a \in AthleteCreate : create_athlete(p, 1, a)
    \/ create_athlete_commit(p)
    \/ \E f \in ConcFiles : upload_excel(p, 1, f)
    \/ \E id \in AthleteIds : delete_athlete(p, id)
    \/ get_athletes(p, 1)
    \/ \E f \in Forms : add_athlete_tab(p, 1, f)
    \/ add_athlete_alloc(p)
    \/ add_athlete_commit(p)
    \/ \E id \in AthleteIds, f \in Forms : show_edit_modal_inline(p, id, f)
    \/ \E f \in ConcFiles : upload_excel_tab(p, 1, f)
    \/ upload_check(p)
    \/ upload_alloc(p)
    \/ upload_commit(p)

ConcSpec == Init /\ [][ConcNext]_vars

\* One client, one request at a time, and no request that deletes: the
\* registrations, uploads and edits from an empty table on.
NoDeleteNext ==
  \/ restart
  \/ \E p \in {"p1"} :
       \/ \E c \in CoachIds, a \in AthleteCreate : create_athlete(p, c, a)
       \/ create_athlete_commit(p)
       \/ \E c \in CoachIds, f \in Files : upload_excel(p, c, f)
       \/ \E c \in Coaches, f \in Forms : add_athlete_tab(p, c, f)
       \/ add_athlete_alloc(p)
       \/ add_athlete_commit(p)
       \/ \E id \in AthleteIds, f \in Forms : show_edit_modal(p, id, f)
       \/ \E c \in Coaches, f \in Files : upload_excel_tab(p, c, f)
       \/ upload_check(p)
       \/ upload_alloc(p)
       \/ upload_commit(p)

NoDeleteSpec == Init /\ [][NoDeleteNext]_vars

\* ------------------------------------------- validate_excel_data on its own
\* test_excel_utils (test_app.py) hands frames to validate_excel_data directly.
\* The frames below are its inputs here: every spelling the token lists accept,
\* rows that fail in one or in several fields, empty rows, an extra column, and
\* headers that lack required columns.

\* The longest frame.
MaxSheetRows == 2

J1 == <<" ", " ", "j", "o", "h", "n", " ", "D", "O", "E", " ">>
Notes == <<"N", "o", "t", "e", "s">>
Monday == <<"M", "o", "n", "d", "a", "y">>

\* The belts, and the days and genders as the messages of validate_excel_data
\* list them (expected: Saturday/Sunday/Sat/Sun, Male/Female/M/F/Boy/Girl/B/G).
AcceptedBelts ==
  { <<"w", "h", "i", "t", "e">>, <<"y", "e", "l", "l", "o", "w">>, <<"b", "l", "u", "e">>,
    <<"p", "u", "r", "p", "l", "e">>, <<"g", "r", "e", "e", "n">>, <<"b", "r", "o", "w", "n">>,
    <<"b", "l", "a", "c", "k">> }
AcceptedDays ==
  [sat |-> { <<"s", "a", "t">>, <<"s", "a", "t", "u", "r", "d", "a", "y">> },
   sun |-> { <<"s", "u", "n">>, <<"s", "u", "n", "d", "a", "y">> }]
AcceptedGenders ==
  [male |-> { <<"m", "a", "l", "e">>, <<"m">>, <<"b", "o", "y">>, <<"b">> },
   female |-> { <<"f", "e", "m", "a", "l", "e">>, <<"f">>, <<"g", "i", "r", "l">>, <<"g">> }]

\* A token as entered: as listed, capitalised, or in capitals between spaces.
Spellings(tokens) ==
  tokens \cup { capitalize(t) : t \in tokens }
         \cup { <<" ">> \o [i \in 1..Len(t) |-> UpperChar(t[i])] \o <<" ">> : t \in tokens }

\* The cells a column may hold.
NameCells == { NaNCell, StrCell(<<" ", " ">>), StrCell(J1) }
DobCells == { NaNCell, StrCell(<<"x">>), StrCell(<<" ", "1">>), DateCell(2) }
DojoCells == { NaNCell, StrCell(<<" ">>), StrCell(D2) }
BeltCells == { NaNCell, StrCell(<<" ">>), StrCell(<<"r", "e", "d">>), StrCell(<<"y", "e", "l", "l", "o", "w">>) }
DayCells == { NaNCell, StrCell(Monday), StrCell(<<"s", "a", "t">>) }
GenderCells == { NaNCell, StrCell(<<"x">>), StrCell(<<"m">>) }

\* Rows that fail in any combination of fields.
ComboRows ==
  { [name |-> n, dob |-> d, dojo |-> j, belt |-> b, day |-> y, gender |-> g,
     extra |-> NaNCell] :
      n \in NameCells, d \in {NaNCell, StrCell(<<"x">>), DateCell(2)},
      j \in {StrCell(<<" ">>), StrCell(D2)},
      b \in BeltCells \ {StrCell(<<" ">>)}, y \in DayCells \ {NaNCell},
      g \in GenderCells }

\* Rows that are fine but for one cell, which takes every value of its column.
GoodRow == RawCells(J1, StrCell(<<" ", "1">>), D2, <<"y", "e", "l", "l", "o", "w">>,
                    <<"s", "a", "t">>, <<"m">>)
OneCellRows ==
  { [GoodRow EXCEPT !.name = c] : c \in NameCells }
  \cup { [GoodRow EXCEPT !.dob = c] : c \in DobCells }
  \cup { [GoodRow EXCEPT !.dojo = c] : c \in DojoCells }
  \cup { [GoodRow EXCEPT !.belt = c] :
           c \in BeltCells \cup { StrCell(t) : t \in Spellings(AcceptedBelts) } }
  \cup { [GoodRow EXCEPT !.day = c] :
           c \in DayCells \cup { StrCell(t) : t \in Spellings(AcceptedDays.sat \cup AcceptedDays.sun) } }
  \cup { [GoodRow EXCEPT !.gender = c] :
           c \in GenderCells \cup { StrCell(t) : t \in Spellings(AcceptedGenders.male \cup AcceptedGenders.female) } }

\* The rows of the longer frames.
MixRows ==
  { GoodRow, R2, R4, BlankRow, NoteRow, [GoodRow EXCEPT !.name = NaNCell],
    [GoodRow EXCEPT !.dob = StrCell(<<"x">>), !.belt = StrCell(<<"r", "e", "d">>)] }

RowLists == UNION { [1..n -> MixRows] : n \in 0..MaxSheetRows }

\* The headers: the template's, with one more column.
NotesHeader == TemplateHeader \cup { Notes }

Frame(h, rs) == Sheet(h, rs).sheet

Frames ==
  { Frame(NotesHeader, <<r>>) : r \in ComboRows \cup OneCellRows }
  \cup { Frame(h, rs) :
           h \in { NotesHeader, NotesHeader \ { <<"B", "e", "l", "t">> },
                   { Notes, <<"N", "a", "m", "e">> } },
           rs \in RowLists }

\* validate_excel_data(frame): the call, and what it returns.
Validated(frame) ==
  LET r == validate_excel_data(frame)
  IN  [frame |-> frame, columns |-> r.columns, df |-> r.df, errors |-> r.errors]

\* cleaned_df, errors = validate_excel_data(valid_data)
test_excel_utils(p) ==
  /\ pc[p] = "validate_excel_data"
  /\ Reply(p, "validate_excel_data", "returned", Validated(loc[p].frame))
  /\ UNCHANGED <<configuration, logins, athletes, allocated>>

\* validate_excel_data once more, on the frame it returned
validate_again(p) ==
  /\ pc[p] = "idle"
  /\ resp.op = "validate_excel_data"
  /\ Reply(p, "validate_again", "returned",
           Validated([columns |-> resp.body.columns, rows |-> resp.body.df]))
  /\ UNCHANGED <<configuration, logins, athletes, allocated>>

ValidateInit ==
  /\ ENTRYDESK_WRITES_ENABLED = TRUE
  /\ athletes = <<>>
  /\ \E frame \in Frames :
       /\ pc = [p \in Procs |-> IF p = "p1" THEN "validate_excel_data" ELSE "idle"]
       /\ loc = [p \in Procs |-> IF p = "p1"
                                 THEN [op |-> "validate_excel_data", frame |-> frame]
                                 ELSE Idle]
  /\ resp = [op |-> "none", status |-> "none", body |-> <<>>]
  /\ allocated = <<>>
  /\ NoLogin

ValidateNext ==
  \E p \in {"p1"} :
    \/ test_excel_utils(p)
    \/ validate_again(p)

ValidateSpec == ValidateInit /\ [][ValidateNext]_vars

\* --------------------------------------------- normalize_string on its own
\* check_duplicate_athlete hands names and dojos to normalize_string.  Here it
\* is called on every text of up to MaxTextLen characters over two letters, a
\* space and a tab, on None, and on two longer names.

MaxTextLen == 4

TextChars == { "a", "B", " ", "\t" }
ANameSpaced == <<" ", "A", " ", " ", "N", "a", "m", "e", " ">>
AName == <<"a", " ", "n", "a", "m", "e">>
Texts ==
  UNION { [1..n -> TextChars] : n \in 0..MaxTextLen } \cup { None, ANameSpaced, AName }

\* str.swapcase for one character
SwapChar(c) == IF LowerChar(c) = c THEN UpperChar(c) ELSE LowerChar(c)

\* The text s entered another way: every letter in the other case, every space
\* or tab doubled, a tab in front and a space behind.
RECURSIVE Doubled(_)
Doubled(s) ==
  IF s = <<>> THEN <<>>
  ELSE (IF IsSpace(Head(s)) THEN <<Head(s), " ">> ELSE <<SwapChar(Head(s))>>)
       \o Doubled(Tail(s))
Respelled(s) == <<"\t">> \o Doubled(s) \o <<" ">>

\* normalized_name = normalize_string(name)
call_normalize_string(p) ==
  /\ pc[p] = "normalize_string"
  /\ Reply(p, "normalize_string", "returned",
           [s |-> loc[p].s, out |-> normalize_string(loc[p].s)])
  /\ UNCHANGED <<configuration, logins, athletes, allocated>>

\* normalize_string of what normalize_string returned
normalize_again(p) ==
  /\ pc[p] = "idle"
  /\ resp.op = "normalize_string"
  /\ Reply(p, "normalize_again", "returned",
           [s |-> resp.body.out, out |-> normalize_string(resp.body.out)])
  /\ UNCHANGED <<configuration, logins, athletes, allocated>>

\* athlete_normalized_name = normalize_string(athlete.name), for the same name
\* spelled another way
normalize_respelled(p) ==
  /\ pc[p] = "idle"
  /\ resp.op = "normalize_string"
  /\ resp.body.s # None
  /\ Reply(p, "normalize_respelled", "returned",
           [s |-> Respelled(resp.body.s), of |-> resp.body.s, first |-> resp.body.out,
            out |-> normalize_string(Respelled(resp.body.s))])
  /\ UNCHANGED <<configuration, logins, athletes, allocated>>

NormalizeInit ==
  /\ ENTRYDESK_WRITES_ENABLED = TRUE
  /\ athletes = <<>>
  /\ \E s \in Texts :
       /\ pc = [p \in Procs |-> IF p = "p1" THEN "normalize_string" ELSE "idle"]
       /\ loc = [p \in Procs |-> IF p = "p1" THEN [op |-> "normalize_string", s |-> s]
                                 ELSE Idle]
  /\ resp = [op |-> "none", status |-> "none", body |-> <<>>]
  /\ allocated = <<>>
  /\ NoLogin

NormalizeNext ==
  \E p \in {"p1"} :
    \/ call_normalize_string(p)
    \/ normalize_again(p)
    \/ normalize_respelled(p)

NormalizeSpec == NormalizeInit /\ [][NormalizeNext]_vars

\* ---------------------------------------- check_duplicate_athlete on its own
\* The handlers call check_duplicate_athlete with a stripped name and dojo, a
\* date and, in upload_excel, the coach.  Here it is called on tables of up to
\* MaxDbRows rows: an athlete, the same athlete spelled differently, with
\* another dojo, another dob, another coach, and another athlete.

MaxDbRows == 3

StoredRows ==
  { [name |-> N1, dob |-> 1, dojo |-> D1, coach_id |-> 1],
    [name |-> N2, dob |-> 1, dojo |-> D2, coach_id |-> 1],
    [name |-> N1, dob |-> 1, dojo |-> D3, coach_id |-> 1],
    [name |-> N1, dob |-> 2, dojo |-> D1, coach_id |-> 1],
    [name |-> N2, dob |-> 1, dojo |-> D2, coach_id |-> 2],
    [name |-> N3, dob |-> 1, dojo |-> D1, coach_id |-> 1] }

\* The row a handler has inserted as the i-th of the table.
Stored(r, i) ==
  [Athlete(i, r.name, r.dob, r.dojo, Yellow, Saturday, Male, r.coach_id) EXCEPT !.id = i]

Tables ==
  UNION { { [i \in 1..n |-> Stored(rs[i], i)] : rs \in [1..n -> StoredRows] } :
          n \in 0..MaxDbRows }

\* The arguments: name and dojo stripped, the dojo possibly empty or left out,
\* coach_id 0 for a call without coach_id.
Candidates ==
  { [name |-> n, dob |-> d, dojo |-> j, coach_id |-> c] :
      n \in { N1, strip(N2) }, d \in {1, 2},
      j \in { D1, strip(D2), <<>>, None }, c \in {0} \cup Coaches }

\* existing = check_duplicate_athlete(db, athlete_name, athlete_dob, athlete_dojo, coach_id)
call_check_duplicate_athlete(p) ==
  /\ pc[p] = "check_duplicate_athlete"
  /\ Reply(p, "check_duplicate_athlete", "returned",
           [given |-> loc[p].given,
            existing |-> check_duplicate_athlete(athletes, loc[p].given.name,
                                                 loc[p].given.dob, loc[p].given.dojo,
                                                 loc[p].given.coach_id)])
  /\ UNCHANGED <<configuration, logins, athletes, allocated>>

DuplicateInit ==
  /\ ENTRYDESK_WRITES_ENABLED = TRUE
  /\ athletes \in Tables
  /\ \E given \in Candidates :
       /\ pc = [p \in Procs |-> IF p = "p1" THEN "check_duplicate_athlete" ELSE "idle"]
       /\ loc = [p \in Procs |-> IF p = "p1"
                                 THEN [op |-> "check_duplicate_athlete", given |-> given]
                                 ELSE Idle]
  /\ resp = [op |-> "none", status |-> "none", body |-> <<>>]
  /\ allocated = <<>>
  /\ NoLogin

DuplicateNext ==
  \E p \in {"p1"} : call_check_duplicate_athlete(p)

DuplicateSpec == DuplicateInit /\ [][DuplicateNext]_vars

\* ------------------------------------------------- import runs on their own
\* One client uploads sheets, through the API and through the pages, into a
\* table that is empty or holds one athlete of coach 2; a commit may fail for a
\* reason outside the table.

\* The tables the runs start from: empty, one athlete with unique_id 1, and one
\* athlete with unique_id 2 (the athlete with unique_id 1 was deleted).
ImportTables ==
  { <<>>,
    << Stored([name |-> N1, dob |-> 1, dojo |-> D1, coach_id |-> 2], 1) >>,
    << Stored([name |-> N1, dob |-> 2, dojo |-> D3, coach_id |-> 2], 2) >> }

ImportInit ==
  /\ ENTRYDESK_WRITES_ENABLED = TRUE
  /\ athletes \in ImportTables
  /\ pc = [p \in Procs |-> "idle"]
  /\ loc = [p \in Procs |-> Idle]
  /\ resp = [op |-> "none", status |-> "none", body |-> <<>>]
  /\ allocated = <<>>
  /\ NoLogin

ImportNext ==
  \E p \in {"p1"} :
    \/ \E c \in CoachIds, f \in ImportFiles : upload_excel(p, c, f)
    \/ \E c \in Coaches, f \in ImportFiles : upload_excel_tab(p, c, f)
    \/ \E c \in Coaches, f \in ImportFiles : admin_upload_excel_tab(p, c, f)
    \/ upload_check(p)
    \/ upload_alloc(p)
    \/ upload_commit(p)
    \/ upload_commit_error(p)

ImportSpec == ImportInit /\ [][ImportNext]_vars

\* --------------------------------------------- the coach allowlist on its own
\* test_coach_allowlist_parsing and test_coach_allowlist_logic (test_app.py)
\* set the environment, load app.py and call is_allowed_coach.

\* s.split(sep) for a separator of one character
RECURSIVE SplitOn(_, _, _, _)
SplitOn(s, sep, parts, cur) ==
  IF s = <<>> THEN Append(parts, cur)
  ELSE IF Head(s) = sep THEN SplitOn(Tail(s), sep, Append(parts, cur), <<>>)
  ELSE SplitOn(Tail(s), sep, parts, Append(cur, Head(s)))

split_on(s, sep) == SplitOn(s, sep, <<>>, <<>>)

\* { e.strip().lower() for e in os.getenv(NAME, default).split(",") if e.strip() }
parse_email_set(value) ==
  { lower(strip(e)) : e \in { x \in Range(split_on(value, ",")) : strip(x) # <<>> } }

\* The module's configuration, computed from the environment when app.py loads.
ADMIN_EMAILS == parse_email_set(environ.ADMIN_EMAILS)
COACH_EMAILS == parse_email_set(environ.COACH_EMAILS)
COACH_DOMAINS == parse_email_set(environ.COACH_DOMAINS)
ENFORCE_COACH_ALLOWLIST == lower(environ.ENFORCE_COACH_ALLOWLIST) = <<"t", "r", "u", "e">>

\* is_allowed_coach that compares the email as it was typed
is_allowed_coach_as_typed(email) ==
  LET e == IF email = None THEN <<>> ELSE email
  IN  IF ~ENFORCE_COACH_ALLOWLIST THEN TRUE
      ELSE IF e \in ADMIN_EMAILS THEN TRUE
      ELSE IF e \in COACH_EMAILS THEN TRUE
      ELSE IF "@" \in Range(e) THEN split_on(e, "@")[2] \in COACH_DOMAINS
      ELSE FALSE

\* app.is_allowed_coach
is_allowed_coach(email) ==
  LET e == lower(strip(IF email = None THEN <<>> ELSE email))
  IN  IF ~ENFORCE_COACH_ALLOWLIST THEN TRUE
      ELSE IF e \in ADMIN_EMAILS THEN TRUE
      ELSE IF e \in COACH_EMAILS THEN TRUE
      ELSE IF "@" \in Range(e) THEN split_on(e, "@")[2] \in COACH_DOMAINS
      ELSE FALSE

\* The values of the environment variables.
AdminsEnv == { <<>>, <<" ", "A", "@", "x", " ", ",">>, <<"b", "@", "y", ",", "a", "@", "x">> }
CoachesEnv == { <<>>, <<"c", "@", "x", ",", " ", "B", "@", "Y">>, <<" ", ",", " ">> }
DomainsEnv == { <<>>, <<" ", "X", " ">>, <<"y", ",", "z">> }
EnforceEnv == { <<"t", "r", "u", "e">>, <<"T", "r", "u", "e">>, <<"f", "a", "l", "s", "e">>, <<>> }

Environs ==
  [ADMIN_EMAILS : AdminsEnv, COACH_EMAILS : CoachesEnv, COACH_DOMAINS : DomainsEnv,
   ENFORCE_COACH_ALLOWLIST : EnforceEnv]

\* The emails that log in: spelled as in the lists and otherwise, of a listed
\* domain and of none, without "@", empty and None.
Emails ==
  { None, <<>>, <<"a", "@", "x">>,
    <<" ", "A", "@", "X", " ">>,
    <<"b", "@", "y">>,
    <<"c", "@", "z">>,
    <<"d", "@", "x">>,
    <<"D", "@", "X", " ">>,
    <<"a", "x">>,
    <<"x">>,
    <<"B", "@", "Y">>,
    <<"e", "@", "z">> }

\* is_allowed_coach(email) under the loaded configuration
call_is_allowed_coach(p) ==
  /\ pc[p] = "is_allowed_coach"
  /\ Reply(p, "is_allowed_coach", "returned",
           [environ |-> environ,
            email |-> loc[p].email,
            ENFORCE_COACH_ALLOWLIST |-> ENFORCE_COACH_ALLOWLIST,
            ADMIN_EMAILS |-> ADMIN_EMAILS,
            COACH_EMAILS |-> COACH_EMAILS,
            COACH_DOMAINS |-> COACH_DOMAINS,
            allowed |-> is_allowed_coach(loc[p].email)])
  /\ UNCHANGED <<configuration, logins, athletes, allocated>>

AllowlistInit ==
  /\ ENTRYDESK_WRITES_ENABLED = TRUE
  /\ athletes = <<>>
  /\ \E email \in Emails :
       /\ pc = [p \in Procs |-> IF p = "p1" THEN "is_allowed_coach" ELSE "idle"]
       /\ loc = [p \in Procs |-> IF p = "p1"
                                 THEN [op |-> "is_allowed_coach", email |-> email]
                                 ELSE Idle]
  /\ resp = [op |-> "none", status |-> "none", body |-> <<>>]
  /\ allocated = <<>>
  /\ environ \in Environs
  /\ coaches = <<>>
  /\ session_state = [p \in Procs |-> LoggedOut]

AllowlistNext ==
  \E p \in {"p1"} : call_is_allowed_coach(p)

AllowlistSpec == AllowlistInit /\ [][AllowlistNext]_vars

\* ------------------------------------------------------------------ logins
\* login_page (app.py) in demo mode: the form's email, the allowlist, the coach
\* row and the session.  In OAuth mode the same statements follow
\* verify_google_token.

\* The names app.py imports from the modules of the repository (lines 25-26).
\* login_page calls get_or_create_coach and verify_google_token, which auth.py
\* defines and app.py never imports.
app_imports ==
  { "get_db", "Athlete", "Coach", "get_next_unique_id", "init_db",
    "check_duplicate_athlete", "process_excel_file", "create_template_excel" }

\* auth.get_or_create_coach(db, user_info): the row with that email, or a new row
\* of that email; is_admin is left to the column's default, 0.
get_or_create_coach(db, email) ==
  LET hits == SelectSeq(db, LAMBDA c : c.email = email)
      coach == Coach(MaxOf({ c.id : c \in Range(db) }) + 1, email, 0)
  IN  IF hits # <<>>
      THEN [coaches |-> db, coach |-> Head(hits)]
      ELSE [coaches |-> Append(db, coach), coach |-> coach]

\* login_page, "Enter Demo Mode" with a coach name filled in
login_page(p, email) ==
  /\ pc[p] = "idle"
  /\ IF email = <<>>
     THEN /\ Reply(p, "login_page", "error", "Please fill in all fields")
          /\ UNCHANGED logins
     ELSE IF ~is_allowed_coach(email)
     THEN /\ Reply(p, "login_page", "denied", email)
          /\ UNCHANGED logins
     ELSE IF "get_or_create_coach" \notin app_imports
     THEN /\ Reply(p, "login_page", "NameError", email)
          /\ UNCHANGED logins
     ELSE LET r == get_or_create_coach(coaches, email)
          IN  /\ coaches' = r.coaches
              /\ session_state' = [session_state EXCEPT ![p] =
                     [logged_in |-> TRUE, coach_id |-> r.coach.id,
                      coach_email |-> r.coach.email, is_admin |-> r.coach.is_admin = 1]]
              /\ Reply(p, "login_page", "ok", email)
  /\ UNCHANGED <<configuration, athletes, allocated>>

\* get_or_create_coach called by a program that imports auth
call_get_or_create_coach(p, email) ==
  /\ pc[p] = "idle"
  /\ LET r == get_or_create_coach(coaches, email)
     IN  /\ coaches' = r.coaches
         /\ Reply(p, "get_or_create_coach", "returned", [email |-> email, coach |-> r.coach])
  /\ UNCHANGED <<configuration, session_state, athletes, allocated>>

\* The emails typed into the form: an admin's in two spellings, a coach's, none.
LoginEmails == { <<>>, <<"a", "@", "x">>, <<" ", "A", "@", "X", " ">>, <<"b", "@", "y">>, <<"c", "@", "z">> }

\* The coaches tables the logins start from: empty, and one coach who is no
\* admin yet.
LoginTables == { <<>>, << Coach(1, <<"a", "@", "x">>, 0) >>, << Coach(1, <<"b", "@", "y">>, 0) >> }

LoginInit ==
  /\ ENTRYDESK_WRITES_ENABLED = TRUE
  /\ athletes = <<>>
  /\ pc = [p \in Procs |-> "idle"]
  /\ loc = [p \in Procs |-> Idle]
  /\ resp = [op |-> "none", status |-> "none", body |-> <<>>]
  /\ allocated = <<>>
  /\ environ \in [ADMIN_EMAILS : AdminsEnv, COACH_EMAILS : { <<>> },
                  COACH_DOMAINS : { <<>>, <<"y", ",", "z">> },
                  ENFORCE_COACH_ALLOWLIST : { <<>>, <<"t", "r", "u", "e">> }]
  /\ coaches \in LoginTables
  /\ session_state = [p \in Procs |-> LoggedOut]

LoginNext ==
  \E p \in {"p1"}, email \in LoginEmails :
    \/ login_page(p, email)
    \/ call_get_or_create_coach(p, email)

LoginSpec == LoginInit /\ [][LoginNext]_vars

\* ------------------------------------------------- the write lock's setting
\* api.py and app.py set ENTRYDESK_WRITES_ENABLED when they load, from the
\* environment variable of that name; the handlers then run under it.

\* parse_bool comparing the text in the case it was written
parse_bool_case_sensitive(s) ==
  strip(s) \in { <<"1">>, <<"t", "r", "u", "e">>, <<"y", "e", "s">>, <<"y">>, <<"o", "n">> }

\* parse_bool (api.py and app.py): str(s).strip().lower() in {"1", "true", "yes", "y", "on"}
parse_bool(s) ==
  lower(strip(s)) \in { <<"1">>, <<"t", "r", "u", "e">>, <<"y", "e", "s">>, <<"y">>, <<"o", "n">> }

\* The values test_parse_bool gives parse_bool.
TestValues ==
  { <<"t", "r", "u", "e">>, <<"T", "R", "U", "E">>, <<"T", "r", "u", "e">>,
    <<"1">>, <<"y", "e", "s">>, <<"Y", "E", "S">>,
    <<"y">>, <<"Y">>, <<"o", "n">>,
    <<"O", "N">>, <<" ", " ", "t", "r", "u", "e", " ", " ">>, <<"f", "a", "l", "s", "e">>,
    <<"F", "A", "L", "S", "E">>, <<"0">>, <<"n", "o">>,
    <<"N", "O">>, <<"n">>, <<"o", "f", "f">>,
    <<"O", "F", "F">>, <<"r", "a", "n", "d", "o", "m">>, <<>>,
    <<" ", " ", "f", "a", "l", "s", "e", " ", " ">> }

EnvChars == { "o", "N", "y", " " }

\* The values of the environment variable: those of the test and every text of
\* up to MaxTextLen characters of EnvChars.
EnvValues ==
  TestValues \cup UNION { [1..n -> EnvChars] : n \in 0..MaxTextLen }

\* ENTRYDESK_WRITES_ENABLED = parse_bool(os.getenv("ENTRYDESK_WRITES_ENABLED", "true")),
\* with the variable set
load_api(p) ==
  /\ pc[p] = "load_api"
  /\ ENTRYDESK_WRITES_ENABLED' = parse_bool(environ.ENTRYDESK_WRITES_ENABLED)
  /\ Reply(p, "parse_bool", "returned",
           [s |-> environ.ENTRYDESK_WRITES_ENABLED,
            out |-> parse_bool(environ.ENTRYDESK_WRITES_ENABLED)])
  /\ UNCHANGED <<environ, logins, athletes, allocated>>

\* The server before its modules are loaded: the flag is not set yet.
WriteLockInit ==
  /\ ENTRYDESK_WRITES_ENABLED \in BOOLEAN
  /\ athletes = <<>>
  /\ pc = [p \in Procs |-> IF p = "p1" THEN "load_api" ELSE "idle"]
  /\ loc = [p \in Procs |-> Idle]
  /\ resp = [op |-> "none", status |-> "none", body |-> <<>>]
  /\ allocated = <<>>
  /\ environ \in [ENTRYDESK_WRITES_ENABLED : EnvValues]
  /\ coaches = CoachRows
  /\ session_state = [p \in Procs |-> LoggedOut]

WriteLockNext ==
  \E p \in {"p1"} :
    \/ load_api(p)
    \/ \E a \in AthleteCreate : create_athlete(p, 1, a)
    \/ create_athlete_commit(p)
    \/ \E id \in AthleteIds : delete_athlete(p, id)
    \/ get_athletes(p, 1)
    \/ \E f \in Forms : add_athlete_tab(p, 1, f)
    \/ add_athlete_alloc(p)
    \/ add_athlete_commit(p)
    \/ \E id \in AthleteIds : confirm_delete(p, id)

WriteLockSpec == WriteLockInit /\ [][WriteLockNext]_vars

\* ----------------------------------------------------------------- claims

\* Two rows are registrations of the same athlete by the same coach.
SameAthlete(a, b) ==
  /\ a.coach_id = b.coach_id
  /\ a.dob = b.dob
  /\ normalize_string(a.name) = normalize_string(b.name)
  /\ normalize_string(a.dojo) = normalize_string(b.dojo)

Last(seq) == seq[Len(seq)]

\* The client p takes a step.
Steps(p) == pc'[p] # pc[p] \/ loc'[p] # loc[p]

\* C1: in every reachable state, whatever the interleaving of requests, no two
\* rows of the athletes table have the same unique_id.
C1_UniqueIdsDistinct ==
  \A i, j \in 1..Len(athletes) :
    i # j => athletes[i].unique_id # athletes[j].unique_id

\* Two requests were handed the same unique_id, both are through, and the table
\* holds a row.
C1_Witness ==
  /\ \E i, j \in 1..Len(allocated) : i # j /\ allocated[i] = allocated[j]
  /\ \A p \in Procs : pc[p] = "idle"
  /\ athletes # <<>>

\* C2: two requests in flight never hold the same candidate unique_id, that is,
\* never read the same maximum.
C2_NoSharedCandidate ==
  \A p, q \in Procs :
    (/\ p # q
     /\ pc[p] \in {"create_athlete_commit", "add_athlete_commit", "upload_commit"}
     /\ pc[q] \in {"create_athlete_commit", "add_athlete_commit", "upload_commit"})
    => loc[p].row.unique_id # loc[q].row.unique_id

\* What upload p has counted so far: its locals, or its answer once it ended.
Outcome(p) == IF pc[p] = "idle" THEN resp.body ELSE loc[p]

\* C3: a commit that fails on the unique_id constraint never surfaces: the
\* request is not answered 500, the form does not show "Error adding athlete",
\* and the upload records no failed row for it.
C3_ConflictNeverSurfaces ==
  [][\A p \in Procs :
       (/\ pc[p] \in {"create_athlete_commit", "add_athlete_commit", "upload_commit"}
        /\ Steps(p)
        /\ unique_id_taken(athletes, loc[p].row.unique_id))
       => /\ pc[p] = "create_athlete_commit" => resp'.status # "500"
          /\ pc[p] = "add_athlete_commit" => resp'.status # "error"
          /\ pc[p] = "upload_commit" =>
               Len(Outcome(p)'.errors) = Len(loc[p].errors)]_vars

\* C4: no two rows of the table are registrations of the same athlete by the
\* same coach.
C4_NoDuplicateInScope ==
  \A i, j \in 1..Len(athletes) : i # j => ~SameAthlete(athletes[i], athletes[j])

\* The rows the request answered last has registered after checking for a
\* duplicate, as far as they are still in the table.
LastRegistered ==
  IF resp.op = "add_athlete_tab" /\ resp.status = "ok"
  THEN { a \in Range(athletes) : a.unique_id = resp.body }
  ELSE IF resp.op = "upload_excel" /\ resp.status = "200"
  THEN Range(resp.body.athletes) \cap Range(athletes)
  ELSE {}

\* C5: of two requests that check for a duplicate before they insert
\* (add_athlete_tab, the uploads), the second to commit never inserts a row for
\* an athlete that the first has just registered for the same coach.
C5_CheckedInsertFindsNoDuplicate ==
  [][\A p \in Procs :
       (/\ pc[p] \in {"add_athlete_commit", "upload_commit"}
        /\ Steps(p)
        /\ Len(athletes') = Len(athletes) + 1)
       => \A a \in LastRegistered : ~SameAthlete(a, loc[p].row)]_vars

ApiWrites == {"create_athlete", "upload_excel", "delete_athlete"}
PageWrites == {"add_athlete_tab", "show_edit_modal_inline", "show_edit_modal",
               "confirm_delete", "confirm_delete_selected", "upload_excel_tab",
               "admin_upload_excel_tab"}
Reads == {"get_athletes", "get_stats"}

\* C6: while ENTRYDESK_WRITES_ENABLED is off no step changes the athletes table,
\* every create, edit, delete and upload is answered with the writes-disabled
\* signal (403 from the API), and every read is answered 200.
C6_WriteLock ==
  [][~ENTRYDESK_WRITES_ENABLED =>
       /\ athletes' = athletes
       /\ resp' # resp =>
            /\ resp'.op \in ApiWrites \cup PageWrites \cup Reads
            /\ resp'.op \in ApiWrites =>
                 resp'.status = "403" /\ resp'.body = "Registrations are closed"
            /\ resp'.op \in PageWrites => resp'.status = "writes_disabled"
            /\ resp'.op \in Reads => resp'.status = "200"]_vars

\* Writes are off, the table holds a row, and a write was just refused.
C6_Witness ==
  /\ ~ENTRYDESK_WRITES_ENABLED
  /\ athletes # <<>>
  /\ resp.op = "delete_athlete" /\ resp.status = "403"

\* C7: every row of the table has a canonical belt, day and gender.
C7_CanonicalEnums ==
  \A a \in Range(athletes) :
    a.belt \in belt_options /\ a.day \in day_options /\ a.gender \in gender_options

\* C8: when create_athlete commits a row for an athlete the coach has already
\* registered, the table is left as it was and the answer is not 200.
C8_CreateRejectsDuplicate ==
  [][\A p \in Procs :
       (/\ pc[p] = "create_athlete_commit"
        /\ Steps(p)
        /\ \E a \in Range(athletes) : SameAthlete(a, loc[p].row))
       => athletes' = athletes /\ resp'.status # "200"]_vars

\* The rows of the coach's roster that the head row of upload p duplicates.
Conflicts(p) ==
  LET r == Head(loc[p].df)
  IN  { a \in Range(athletes) :
          /\ a.coach_id = loc[p].coach_id
          /\ a.dob = r.dob.v
          /\ normalize_string(a.name) = normalize_string(str(r.name))
          /\ normalize_string(a.dojo) = normalize_string(str(r.dojo)) }

\* C9: when upload_excel comes to a validated row that duplicates a row of the
\* coach's roster, it inserts nothing for it, appends a skip that names the
\* unique_id of a conflicting row, and counts one more rejected row.
C9_UploadSkipsDuplicate ==
  [][\A p \in Procs :
       (/\ pc[p] = "upload_check"
        /\ loc[p].op = "upload_excel"
        /\ Steps(p)
        /\ missing_columns(loc[p].columns) = <<>>
        /\ Conflicts(p) # {})
       => /\ athletes' = athletes
          /\ pc'[p] # "upload_alloc"
          /\ Outcome(p)'.rejected = loc[p].rejected + 1
          /\ Outcome(p)'.accepted = loc[p].accepted
          /\ Len(Outcome(p)'.errors) = Len(loc[p].errors) + 1
          /\ Last(Outcome(p)'.errors).kind = "duplicate"
          /\ Last(Outcome(p)'.errors).id \in { a.unique_id : a \in Conflicts(p) }]_vars

\* An upload has ended whose second row was skipped as a duplicate of the row
\* its first row inserted.
C9_Witness ==
  /\ resp.op = "upload_excel" /\ resp.status = "200"
  /\ \E i \in 1..Len(resp.body.errors), j \in 1..Len(resp.body.athletes) :
       /\ resp.body.errors[i].kind = "duplicate"
       /\ resp.body.errors[i].id = resp.body.athletes[j].unique_id

\* C10, as claimed: every unique_id handed out is greater than every unique_id
\* handed out before it.
C10_StrictlyIncreasing ==
  \A i, j \in 1..Len(allocated) : i < j => allocated[i] < allocated[j]

\* C10, amended: every unique_id handed out is greater than the unique_id of
\* every row in the table at that moment: it is the greatest of them plus 1, or
\* 1 for an empty table.
C10_AboveEveryPresentId ==
  [][Len(allocated') = Len(allocated) + 1 =>
       /\ \A a \in Range(athletes) : Last(allocated') > a.unique_id
       /\ athletes = <<>> => Last(allocated') = 1
       /\ athletes # <<>> => \E a \in Range(athletes) : Last(allocated') = a.unique_id + 1]_vars

\* A unique_id was handed out a second time, after the row that held it was
\* deleted.
C10_Witness ==
  /\ \E i, j \in 1..Len(allocated) : i < j /\ allocated[i] = allocated[j]
  /\ \A p \in Procs : pc[p] = "idle"
  /\ Len(athletes) = 1

\* C11: with one client and no deletion, the rows of the table carry the
\* unique_ids 1, 2, ... in the order they were accepted, and a request about to
\* insert after N accepted athletes holds the unique_id N + 1.
C11_GapFree ==
  /\ \A i \in 1..Len(athletes) : athletes[i].unique_id = i
  /\ \A p \in Procs :
       pc[p] \in {"create_athlete_commit", "add_athlete_commit", "upload_commit"}
         => loc[p].row.unique_id = Len(athletes) + 1

\* As many athletes as the bound allows were accepted, by the API and by a form.
C11_Witness ==
  /\ Len(athletes) = MaxInserts
  /\ \E a \in Range(athletes) : a.gender = None
  /\ \E a \in Range(athletes) : a.gender # None
  /\ \A p \in Procs : pc[p] = "idle"

\* C12: an upload of a sheet that lacks a required column is answered with no
\* accepted row and exactly one error, the one that lists the missing columns.
C12_MissingColumnsOneError ==
  (/\ resp.op = "upload_excel"
   /\ resp.status = "200"
   /\ \E i \in 1..Len(resp.body.errors) : resp.body.errors[i].kind = "missing_columns")
  => /\ resp.body.accepted = 0
     /\ resp.body.athletes = <<>>
     /\ Len(resp.body.errors) = 1
     /\ resp.body.rejected = 1

\* What the field rules ask of a row, field by field.
HasText(cell) == cell.t # "nan" /\ \E i \in 1..Len(str(cell)) : ~IsSpace(str(cell)[i])
Token(cell) == lower(strip(str(cell)))
FieldOk(r, col) ==
  IF col = Txt_name THEN HasText(r.name)
  ELSE IF col = Txt_dob
       THEN r.dob.t = "date" \/ (r.dob.t = "str" /\ strip(r.dob.v) \in DateTexts)
  ELSE IF col = Txt_dojo THEN HasText(r.dojo)
  ELSE IF col = Txt_belt THEN HasText(r.belt) /\ Token(r.belt) \in AcceptedBelts
  ELSE IF col = Txt_day
       THEN HasText(r.day) /\ Token(r.day) \in AcceptedDays.sat \cup AcceptedDays.sun
  ELSE HasText(r.gender)
       /\ Token(r.gender) \in AcceptedGenders.male \cup AcceptedGenders.female

RowOk(r) == \A k \in 1..Len(required_columns) : FieldOk(r, required_columns[k])

\* The first field, in the order of required_columns, whose rule the row breaks.
FirstFailing(r) ==
  required_columns[CHOOSE k \in 1..Len(required_columns) :
                     /\ ~FieldOk(r, required_columns[k])
                     /\ \A j \in 1..(k - 1) : FieldOk(r, required_columns[j])]

\* The field a message names.
MsgField(msg) ==
  IF msg = "Missing name" THEN Txt_name
  ELSE IF msg \in {"Missing DOB", "Invalid DOB format", "Invalid DOB"} THEN Txt_dob
  ELSE IF msg = "Missing dojo" THEN Txt_dojo
  ELSE IF msg \in {"Missing belt", "Invalid belt"} THEN Txt_belt
  ELSE IF msg \in {"Missing day", "Invalid day"} THEN Txt_day
  ELSE IF msg \in {"Missing gender", "Invalid gender"} THEN Txt_gender
  ELSE <<>>

\* A row with no cell filled, in any column.
AllEmpty(r) ==
  /\ r.name.t = "nan" /\ r.dob.t = "nan" /\ r.dojo.t = "nan" /\ r.belt.t = "nan"
  /\ r.day.t = "nan" /\ r.gender.t = "nan" /\ r.extra.t = "nan"

\* validate_excel_data has returned for a frame that has every required column.
ValidatedFull ==
  /\ resp.op = "validate_excel_data"
  /\ required_columns = SelectSeq(required_columns,
                                  LAMBDA col : col \in clean_columns(resp.body.frame.columns))

\* The positions, in errors, of the entries about line n of the sheet.
ErrorsAbout(n) == { e \in 1..Len(resp.body.errors) : resp.body.errors[e].row = n }

\* C13: the i-th data row is line i + 1 of the sheet.  A row that breaks a rule
\* has exactly one entry in errors, a 'Row i + 1: message' whose message names
\* the first field, in the order name, dob, dojo, belt, day, gender, that breaks
\* its rule; a row that breaks none has no entry.
C13_FirstFailingField ==
  ValidatedFull =>
    /\ \A e \in 1..Len(resp.body.errors) :
         /\ resp.body.errors[e].kind = "validation"
         /\ resp.body.errors[e].row \in 2..(Len(resp.body.frame.rows) + 1)
    /\ \A i \in 1..Len(resp.body.frame.rows) :
         LET r == resp.body.frame.rows[i]
         IN  IF RowOk(r) \/ AllEmpty(r)
             THEN ErrorsAbout(i + 1) = {}
             ELSE /\ Cardinality(ErrorsAbout(i + 1)) = 1
                  /\ \A e \in ErrorsAbout(i + 1) :
                       MsgField(resp.body.errors[e].msg) = FirstFailing(r)

\* The second data row breaks two rules, that of dob and that of belt, and is
\* reported once, as line 3.
C13_Witness ==
  /\ ValidatedFull
  /\ Len(resp.body.frame.rows) >= 2
  /\ Cardinality({ k \in 1..Len(required_columns) :
                     ~FieldOk(resp.body.frame.rows[2], required_columns[k]) }) >= 2
  /\ FirstFailing(resp.body.frame.rows[2]) = Txt_dob
  /\ ErrorsAbout(3) # {}

\* The positions, in the returned frame, of the i-th data row of the sheet.
AcceptedAt(i) == { k \in 1..Len(resp.body.df) : resp.body.df[k].idx = i - 1 }

\* C14: of a frame with every required column, each row that is not empty is
\* either in the returned frame, once and with the name, dojo and dob cell it
\* was given, or has one entry in errors, never both; the returned frame and
\* errors are in the order of the sheet; and a row that breaks no rule is
\* returned whatever the rows before it.
C14_EveryRowOnce ==
  ValidatedFull =>
    /\ \A i \in 1..Len(resp.body.frame.rows) :
         LET r == resp.body.frame.rows[i]
         IN  /\ ~AllEmpty(r) =>
                  /\ Cardinality(AcceptedAt(i)) + Cardinality(ErrorsAbout(i + 1)) = 1
                  /\ \A k \in AcceptedAt(i) :
                       /\ resp.body.df[k].name = r.name
                       /\ resp.body.df[k].dojo = r.dojo
             /\ RowOk(r) => AcceptedAt(i) # {}
    /\ \A k \in 1..Len(resp.body.df) :
         resp.body.df[k].idx \in 0..(Len(resp.body.frame.rows) - 1)
    /\ \A j, k \in 1..Len(resp.body.df) :
         j < k => resp.body.df[j].idx < resp.body.df[k].idx
    /\ \A j, k \in 1..Len(resp.body.errors) :
         j < k => resp.body.errors[j].row < resp.body.errors[k].row

\* The first row of the sheet was rejected and the second one returned.
C14_Witness ==
  /\ ValidatedFull
  /\ Len(resp.body.frame.rows) >= 2
  /\ ErrorsAbout(2) # {}
  /\ AcceptedAt(2) # {}

\* A row with no cell filled in the six required columns.
BlankInRequired(r) ==
  /\ r.name.t = "nan" /\ r.dob.t = "nan" /\ r.dojo.t = "nan"
  /\ r.belt.t = "nan" /\ r.day.t = "nan" /\ r.gender.t = "nan"

\* C15: a row with nothing in the six required columns is dropped: it is not in
\* the returned frame and has no entry in errors, whatever its other columns
\* hold.
C15_BlankRowDropped ==
  ValidatedFull =>
    \A i \in 1..Len(resp.body.frame.rows) :
      BlankInRequired(resp.body.frame.rows[i])
        => AcceptedAt(i) = {} /\ ErrorsAbout(i + 1) = {}

\* C16: every row validate_excel_data returns has its name and dojo without
\* leading or trailing spaces, letter case kept, and a canonical belt, day and
\* gender.
C16_AcceptedRowsCleaned ==
  ValidatedFull =>
    \A k \in 1..Len(resp.body.df) :
      LET row == resp.body.df[k]
          given == resp.body.frame.rows[row.idx + 1]
      IN  /\ row.name = StrCell(strip(str(given.name)))
          /\ row.dojo = StrCell(strip(str(given.dojo)))
          /\ row.belt.t = "str" /\ row.belt.v \in belt_options
          /\ row.day.t = "str" /\ row.day.v \in day_options
          /\ row.gender.t = "str" /\ row.gender.v \in gender_options

EnumsAccepted(r) ==
  /\ HasText(r.belt) /\ Token(r.belt) \in AcceptedBelts
  /\ HasText(r.day) /\ Token(r.day) \in AcceptedDays.sat \cup AcceptedDays.sun
  /\ HasText(r.gender) /\ Token(r.gender) \in AcceptedGenders.male \cup AcceptedGenders.female

\* C17: a row with a valid name, dob and dojo is returned exactly if its belt,
\* day and gender, trimmed and lower-cased, are listed spellings.  The returned
\* row has the belt with its first letter in capitals, Saturday for sat and
\* saturday, Sunday for sun and sunday, Male for male, m, boy and b, Female for
\* female, f, girl and g.  A row that is fine but for a day that is not listed
\* is not returned and its entry in errors says 'Invalid day'.
C17_EnumRules ==
  ValidatedFull =>
    \A i \in 1..Len(resp.body.frame.rows) :
      LET r == resp.body.frame.rows[i]
      IN  (FieldOk(r, Txt_name) /\ FieldOk(r, Txt_dob) /\ FieldOk(r, Txt_dojo)) =>
            /\ AcceptedAt(i) # {} <=> EnumsAccepted(r)
            /\ \A k \in AcceptedAt(i) :
                 LET row == resp.body.df[k]
                 IN  /\ row.belt.v = <<UpperChar(Head(Token(r.belt)))>> \o Tail(Token(r.belt))
                     /\ row.day.v = (IF Token(r.day) \in AcceptedDays.sat
                                     THEN <<"S", "a", "t", "u", "r", "d", "a", "y">>
                                     ELSE <<"S", "u", "n", "d", "a", "y">>)
                     /\ row.gender.v = (IF Token(r.gender) \in AcceptedGenders.male
                                        THEN <<"M", "a", "l", "e">>
                                        ELSE <<"F", "e", "m", "a", "l", "e">>)
            /\ (/\ HasText(r.belt) /\ Token(r.belt) \in AcceptedBelts
                /\ HasText(r.day)
                /\ Token(r.day) \notin AcceptedDays.sat \cup AcceptedDays.sun)
               => /\ AcceptedAt(i) = {}
                  /\ \E e \in ErrorsAbout(i + 1) : resp.body.errors[e].msg = "Invalid day"

\* A frame with a Monday row, reported as 'Invalid day', and a row entered as
\* ' BLACK', 'Sunday', 'Girl', returned as Black, Sunday, Female.
C17_Witness ==
  /\ ValidatedFull
  /\ \E e \in 1..Len(resp.body.errors) : resp.body.errors[e].msg = "Invalid day"
  /\ \E k \in 1..Len(resp.body.df) :
       /\ resp.body.frame.rows[resp.body.df[k].idx + 1].belt.v = <<" ", "B", "L", "A", "C", "K">>
       /\ resp.body.df[k].belt.v = <<"B", "l", "a", "c", "k">>
       /\ resp.body.df[k].gender.v = <<"F", "e", "m", "a", "l", "e">>

\* C18: validate_excel_data applied to a frame it has returned returns that
\* frame again, row by row and cell by cell, and no error.
C18_ValidateIdempotent ==
  (/\ resp.op = "validate_again"
   /\ \A k \in 1..Len(required_columns) : required_columns[k] \in resp.body.frame.columns)
  => /\ resp.body.errors = <<>>
     /\ Len(resp.body.df) = Len(resp.body.frame.rows)
     /\ \A k \in 1..Len(resp.body.df) :
          /\ resp.body.df[k].name = resp.body.frame.rows[k].name
          /\ resp.body.df[k].dob = resp.body.frame.rows[k].dob
          /\ resp.body.df[k].dojo = resp.body.frame.rows[k].dojo
          /\ resp.body.df[k].belt = resp.body.frame.rows[k].belt
          /\ resp.body.df[k].day = resp.body.frame.rows[k].day
          /\ resp.body.df[k].gender = resp.body.frame.rows[k].gender

\* A frame of two returned rows, one of them the row entered with the name
\* '  john DOE ', was validated again.
C18_Witness ==
  /\ resp.op = "validate_again"
  /\ Len(resp.body.df) = 2
  /\ \E k \in 1..Len(resp.body.frame.rows) : resp.body.frame.rows[k].name = StrCell(J1)

\* The positions of the characters of s that are no space, in order.
RECURSIVE NonSpaceFrom(_, _)
NonSpaceFrom(s, i) ==
  IF i > Len(s) THEN <<>>
  ELSE (IF IsSpace(s[i]) THEN <<>> ELSE <<i>>) \o NonSpaceFrom(s, i + 1)
NonSpace(s) == NonSpaceFrom(s, 1)

\* out is s without leading and trailing whitespace, with every inner run of
\* whitespace replaced by one space, and with its letters lower-cased.
IsNormalFormOf(out, s) ==
  LET a == NonSpace(s)
      b == NonSpace(out)
  IN  /\ Len(a) = Len(b)
      /\ \A k \in 1..Len(a) : out[b[k]] = LowerChar(s[a[k]])
      /\ \A i \in 1..Len(out) : IsSpace(out[i]) => out[i] = " "
      /\ b = <<>> => out = <<>>
      /\ b # <<>> => b[1] = 1 /\ b[Len(b)] = Len(out)
      /\ \A k \in 1..(Len(a) - 1) :
           b[k + 1] = (IF a[k + 1] = a[k] + 1 THEN b[k] + 1 ELSE b[k] + 2)

\* C19: normalize_string returns the empty text for None and for the empty
\* text, and otherwise its argument trimmed, with every inner run of whitespace
\* collapsed to one space and lower-cased; the same text entered in other
\* letter case and with more whitespace has the same result, ' A  Name ' gives
\* 'a name', and normalize_string of a result is that result.
C19_Normalize ==
  /\ resp.op = "normalize_string" =>
       /\ resp.body.s \in {None, <<>>} => resp.body.out = <<>>
       /\ resp.body.s # None => IsNormalFormOf(resp.body.out, resp.body.s)
       /\ resp.body.s \in {ANameSpaced, AName} => resp.body.out = AName
  /\ resp.op = "normalize_respelled" => resp.body.out = resp.body.first
  /\ resp.op = "normalize_again" => resp.body.out = resp.body.s

\* A text with capitals and a run of whitespace inside was normalised, and so
\* was its other spelling.
C19_Witness ==
  /\ resp.op = "normalize_respelled"
  /\ resp.body.of = <<"B", " ", "\t", "a">>
  /\ resp.body.out = <<"b", " ", "a">>

\* The row a of the table matches the arguments: same dob, the coach if one is
\* given, the same normalised name and, if a dojo is given, the same normalised
\* dojo.
Matches(a, given) ==
  /\ a.dob = given.dob
  /\ given.coach_id # 0 => a.coach_id = given.coach_id
  /\ normalize_string(a.name) = normalize_string(given.name)
  /\ given.dojo \notin {None, <<>>} => normalize_string(a.dojo) = normalize_string(given.dojo)

\* C20: check_duplicate_athlete returns a row exactly if some row of the table
\* matches, and then the first matching row in table order.
C20_FirstMatch ==
  resp.op = "check_duplicate_athlete" =>
    LET hits == { i \in 1..Len(athletes) : Matches(athletes[i], resp.body.given) }
    IN  /\ hits = {} <=> resp.body.existing = NoRow
        /\ hits # {} =>
             \E i \in hits : /\ resp.body.existing = athletes[i]
                             /\ \A j \in hits : i <= j

\* Called for coach 1, the table holding first a row of coach 2 and then two
\* matching rows of coach 1: the second row of the table is returned.
C20_Witness ==
  /\ resp.op = "check_duplicate_athlete"
  /\ resp.body.given.coach_id = 1
  /\ Len(athletes) = 3
  /\ athletes[1].coach_id = 2
  /\ Matches(athletes[3], resp.body.given)
  /\ athletes[2].name # athletes[3].name
  /\ resp.body.existing = athletes[2]

\* C21: an import goes row by row, one commit each.  A commit either adds the
\* row to the table or fails; a failure changes no row of the table, adds one
\* entry for the failed row and accepts nothing; either way the loop goes on
\* with the next row of the sheet, and answers only after the last one.  No
\* step of an import changes or removes a row committed before it, and every
\* athlete an upload reports as created is in the table.
C21_PartialSuccess ==
  [][\A p \in Procs :
       /\ \A i \in 1..Len(athletes) : Len(athletes') >= i /\ athletes'[i] = athletes[i]
       /\ (pc[p] = "upload_commit" /\ Steps(p)) =>
            /\ \/ /\ Len(athletes') = Len(athletes) + 1
                  /\ [Last(athletes') EXCEPT !.id = 0] = loc[p].row
                  /\ Outcome(p)'.accepted = loc[p].accepted + 1
                  /\ Outcome(p)'.errors = loc[p].errors
               \/ /\ athletes' = athletes
                  /\ Outcome(p)'.accepted = loc[p].accepted
                  /\ Len(Outcome(p)'.errors) = Len(loc[p].errors) + 1
                  /\ Last(Outcome(p)'.errors).kind \in {"error", "failed"}
            /\ IF Len(loc[p].df) > 1
               THEN pc'[p] = "upload_check" /\ loc'[p].df = Tail(loc[p].df)
               ELSE pc'[p] = "idle" /\ resp'.op = loc[p].op
       /\ (pc'[p] = "idle" /\ Steps(p) /\ resp'.op = "upload_excel" /\ resp'.status = "200")
            => /\ Range(resp'.body.athletes) \subseteq Range(athletes')
               /\ Len(resp'.body.athletes) = resp'.body.accepted]_vars

\* An upload of two rows has ended: one commit failed, the other row is in the
\* table.
C21_Witness ==
  /\ resp.op = "upload_excel" /\ resp.status = "200"
  /\ resp.body.accepted = 1
  /\ Len(resp.body.errors) = 1
  /\ resp.body.errors[1].kind = "error"
  /\ resp.body.athletes[1] \in Range(athletes)

\* C22: with writes enabled, a create_athlete or upload_excel request for a
\* coach_id that is no row of the coaches table is answered 404 "Coach not
\* found" in one step that leaves the table and the allocated ids as they were;
\* no row of the table belongs to such a coach_id.
C22_CoachNotFound ==
  [][\A p \in Procs, c \in CoachIds \ Coaches :
       /\ \A a \in Range(athletes') : a.coach_id # c
       /\ (/\ ENTRYDESK_WRITES_ENABLED
           /\ \/ \E a \in AthleteCreate : create_athlete(p, c, a)
              \/ \E f \in Files : upload_excel(p, c, f))
          => /\ resp'.status = "404"
             /\ resp'.body = "Coach not found"
             /\ resp'.op \in {"create_athlete", "upload_excel"}
             /\ pc'[p] = "idle"
             /\ athletes' = athletes
             /\ allocated' = allocated]_vars

\* An upload for a coach_id without a coach was answered 404 while the table
\* held an athlete.
C22_Witness ==
  /\ resp.op = "upload_excel"
  /\ resp.status = "404"
  /\ resp.body = "Coach not found"
  /\ athletes # <<>>
  /\ ENTRYDESK_WRITES_ENABLED

\* C23: with writes enabled, DELETE /api/athletes/{id} for an id in the table
\* answers 200 and takes exactly that row out of the table, the other rows
\* staying as and where they were, so that the id is no longer in the table (a
\* second DELETE of it finds nothing); for an id not in the table it answers 404
\* "Athlete not found" and changes nothing.  GET /api/athletes/{coach_id} lists
\* rows of the table only.
C23_DeleteRemovesExactlyOne ==
  [][\A p \in Procs :
       /\ \A id \in AthleteIds :
            (ENTRYDESK_WRITES_ENABLED /\ delete_athlete(p, id)) =>
              IF \E a \in Range(athletes) : a.id = id
              THEN /\ resp'.status = "200"
                   /\ \E k \in 1..Len(athletes) :
                        /\ athletes[k].id = id
                        /\ athletes' = SubSeq(athletes, 1, k - 1)
                                          \o SubSeq(athletes, k + 1, Len(athletes))
                   /\ \A a \in Range(athletes') : a.id # id
                   /\ allocated' = allocated
              ELSE /\ resp'.status = "404"
                   /\ resp'.body = "Athlete not found"
                   /\ athletes' = athletes
                   /\ allocated' = allocated
       /\ \A c \in CoachIds :
            get_athletes(p, c) =>
              /\ athletes' = athletes
              /\ \A i \in 1..Len(resp'.body) :
                   resp'.body[i] \in Range(athletes) /\ resp'.body[i].coach_id = c
              /\ \A a \in Range(athletes) :
                   a.coach_id = c => \E i \in 1..Len(resp'.body) : resp'.body[i] = a]_vars

\* One of two athletes was deleted through the API; the other is in the table.
C23_Witness ==
  /\ resp.op = "delete_athlete"
  /\ resp.status = "200"
  /\ Len(athletes) = 1
  /\ Len(allocated) = 2

\* C24: a row keeps its unique_id (and its coach) for as long as it is in the
\* table.  A saved edit changes no other row and, of the edited row, at most
\* name, dob, dojo, belt, day and gender; a step that is no saved edit changes
\* no row that stays in the table.
C24_UniqueIdImmutable ==
  [][LET edited == /\ pc' = pc
                   /\ resp'.op \in {"show_edit_modal_inline", "show_edit_modal"}
                   /\ resp'.status = "ok"
     IN  /\ \A a \in Range(athletes), b \in Range(athletes') :
              a.id = b.id =>
                /\ b.unique_id = a.unique_id
                /\ b.coach_id = a.coach_id
                /\ (~edited \/ a.id # resp'.body) => b = a
         /\ edited => /\ Len(athletes') = Len(athletes)
                       /\ \A i \in 1..Len(athletes) : athletes'[i].id = athletes[i].id]_vars

\* The first of two athletes was edited: it carries the form's name and gender
\* and the unique_id it was given.
C24_Witness ==
  /\ resp.op = "show_edit_modal"
  /\ resp.status = "ok"
  /\ Len(athletes) = 2
  /\ athletes[1].id = resp.body
  /\ athletes[1].name = strip(N2)
  /\ athletes[1].gender = Female
  /\ athletes[1].unique_id = 1
  /\ athletes[2].name = N1

\* The entries the values of the environment list, written out.
Listed(value) ==
  CASE value = <<" ", "A", "@", "x", " ", ",">> -> {<<"a", "@", "x">>}
    [] value = <<"b", "@", "y", ",", "a", "@", "x">> -> {<<"b", "@", "y">>, <<"a", "@", "x">>}
    [] value = <<"c", "@", "x", ",", " ", "B", "@", "Y">> -> {<<"c", "@", "x">>, <<"b", "@", "y">>}
    [] value = <<" ", ",", " ">> -> {}
    [] value = <<" ", "X", " ">> -> {<<"x">>}
    [] value = <<"y", ",", "z">> -> {<<"y">>, <<"z">>}
    [] OTHER -> {}

\* C25: the three sets of the configuration hold the entries of their
\* environment values trimmed, in lower case and none empty; and
\* is_allowed_coach(email) is TRUE exactly if the allowlist is not enforced, or
\* the email, trimmed and in lower case, is in ADMIN_EMAILS or in COACH_EMAILS, or
\* the text after its "@" is in COACH_DOMAINS.
C25_AllowedCoach ==
  resp.op = "is_allowed_coach" =>
    LET b == resp.body
        e == lower(strip(IF b.email = None THEN <<>> ELSE b.email))
        admins == Listed(b.environ.ADMIN_EMAILS)
        emails == Listed(b.environ.COACH_EMAILS)
        domains == Listed(b.environ.COACH_DOMAINS)
    IN  /\ b.ADMIN_EMAILS = admins
        /\ b.COACH_EMAILS = emails
        /\ b.COACH_DOMAINS = domains
        /\ \A x \in b.ADMIN_EMAILS \cup b.COACH_EMAILS \cup b.COACH_DOMAINS :
             x # <<>> /\ strip(x) = x /\ lower(x) = x
        /\ b.allowed <=>
             \/ ~b.ENFORCE_COACH_ALLOWLIST
             \/ e \in admins
             \/ e \in emails
             \/ \E k \in 1..Len(e) : e[k] = "@" /\ SubSeq(e, k + 1, Len(e)) \in domains

\* With the allowlist enforced, an email typed in capitals and with spaces
\* around it was allowed because ADMIN_EMAILS lists it, in another spelling.
C25_Witness ==
  /\ resp.op = "is_allowed_coach"
  /\ resp.body.ENFORCE_COACH_ALLOWLIST
  /\ resp.body.allowed
  /\ resp.body.email = <<" ", "A", "@", "X", " ">>
  /\ resp.body.environ.ADMIN_EMAILS = <<" ", "A", "@", "x", " ", ",">>
  /\ resp.body.environ.COACH_EMAILS = <<>>
  /\ resp.body.environ.COACH_DOMAINS = <<>>

\* C26: after a login with an email that ADMIN_EMAILS lists, the session is
\* logged in as admin and the coaches table holds that coach with is_admin 1;
\* and a coach row that get_or_create_coach returns for such an email has
\* is_admin 1.
C26_AdminAfterLogin ==
  /\ (/\ resp.op = "login_page"
      /\ resp.status # "error"
      /\ lower(strip(resp.body)) \in Listed(environ.ADMIN_EMAILS))
     => /\ session_state["p1"].logged_in
        /\ session_state["p1"].is_admin
        /\ \E c \in Range(coaches) : c.email = resp.body /\ c.is_admin = 1
  /\ (/\ resp.op = "get_or_create_coach"
      /\ lower(strip(resp.body.email)) \in Listed(environ.ADMIN_EMAILS))
     => resp.body.coach.is_admin = 1

\* The words that enable, and the values test_parse_bool expects to be true.
TruthyWords == { <<"1">>, <<"t", "r", "u", "e">>, <<"y", "e", "s">>, <<"y">>, <<"o", "n">> }
TestedTrue ==
  { <<"t", "r", "u", "e">>, <<"T", "R", "U", "E">>, <<"T", "r", "u", "e">>,
    <<"1">>, <<"y", "e", "s">>, <<"Y", "E", "S">>,
    <<"y">>, <<"Y">>, <<"o", "n">>,
    <<"O", "N">>, <<" ", " ", "t", "r", "u", "e", " ", " ">> }

\* C27: parse_bool(s) is TRUE exactly if s without the spaces around it and in
\* lower case is 1, true, yes, y or on; and once the modules are loaded with
\* another value in ENTRYDESK_WRITES_ENABLED, every request that would write is
\* turned away and no step changes the athletes table.
C27_ParseBool ==
  [][LET s == environ.ENTRYDESK_WRITES_ENABLED
         truthy == lower(strip(s)) \in TruthyWords
     IN  /\ (resp' # resp /\ resp'.op = "parse_bool") =>
              /\ resp'.body.s = s
              /\ resp'.body.out = truthy
              /\ s \in TestValues => (resp'.body.out <=> s \in TestedTrue)
         /\ pc'["p1"] # "load_api" => (ENTRYDESK_WRITES_ENABLED' <=> truthy)
         /\ (pc["p1"] # "load_api" /\ ~truthy) =>
              /\ athletes' = athletes
              /\ allocated' = allocated
              /\ resp'.op \in ApiWrites => resp'.status = "403"
              /\ resp'.op \in PageWrites => resp'.status = "writes_disabled"]_vars

\* The modules were loaded with ENTRYDESK_WRITES_ENABLED=" oN ", and an athlete
\* was registered and then deleted.
C27_Witness ==
  /\ environ.ENTRYDESK_WRITES_ENABLED = <<" ", "o", "N", " ">>
  /\ ENTRYDESK_WRITES_ENABLED
  /\ allocated # <<>>
  /\ athletes = <<>>
  /\ resp.op = "delete_athlete"

\* The rows of other coaches that are the athlete of the row an upload is at.
ForeignMatches(p) ==
  LET r == Head(loc[p].df)
  IN  { a \in Range(athletes) :
          /\ a.coach_id # loc[p].coach_id
          /\ a.dob = r.dob.v
          /\ normalize_string(a.name) = normalize_string(str(r.name))
          /\ normalize_string(a.dojo) = normalize_string(str(r.dojo)) }

\* C28: when an upload comes to a validated row that is an athlete of another
\* coach's roster and of none of the uploading coach's, a coach's own upload
\* (through the API or the upload page) goes on to insert the row for that
\* coach, and an admin's upload for a coach skips it.
C28_CoachScopedUpload ==
  [][\A p \in Procs :
       (/\ pc[p] = "upload_check"
        /\ Steps(p)
        /\ missing_columns(loc[p].columns) = <<>>
        /\ Conflicts(p) = {}
        /\ ForeignMatches(p) # {})
       => IF loc[p].op \in {"upload_excel", "upload_excel_tab"}
          THEN /\ pc'[p] = "upload_alloc"
               /\ loc'[p] = loc[p]
          ELSE /\ athletes' = athletes
               /\ pc'[p] # "upload_alloc"
               /\ Outcome(p)'.skipped = loc[p].skipped + 1
               /\ Outcome(p)'.accepted = loc[p].accepted]_vars

\* The data rows of a file that hold something in a required column.
NonBlankRows(f) ==
  { i \in 1..Len(f.sheet.rows) : ~BlankInRequired(f.sheet.rows[i]) }

\* The data rows of a file that hold something in any column.
NonEmptyRows(f) ==
  { i \in 1..Len(f.sheet.rows) :
      ~BlankInRequired(f.sheet.rows[i]) \/ f.sheet.rows[i].extra.t # "nan" }

\* The file of the upload_excel request that ends with this step, if one does.
Answered(p, f) ==
  /\ pc'[p] = "idle"
  /\ resp'.status = "200"
  /\ \/ pc[p] # "idle" /\ loc[p].op = "upload_excel" /\ loc[p].file = f
     \/ pc[p] = "idle" /\ \E c \in Coaches : upload_excel(p, c, f)

CountsOfNonEmptyRows ==
  [][\A p \in Procs, f \in ImportFiles :
       Answered(p, f) =>
         /\ resp'.body.rejected = Len(resp'.body.errors)
         /\ resp'.body.accepted = Len(resp'.body.athletes)
         /\ (f.readable /\ missing_columns(f.sheet.columns) = <<>>)
              => resp'.body.accepted + resp'.body.rejected = Cardinality(NonEmptyRows(f))]_vars


\* The highest unique_id of the table as it was when the upload of p started:
\* of the rows that this upload did not insert.
RunBase(p) ==
  MaxOf({ a.unique_id : a \in { b \in Range(athletes) :
            \A i \in 1..Len(loc[p].created) : loc[p].created[i].id # b.id } })

Uploading(p) == pc[p] \in {"upload_check", "upload_alloc", "upload_commit"}

\* The rows an upload has inserted so far hold the ids after RunBase in the
\* order of their insertion, and nothing above them is in the table.
ConsecutiveFrom(M, created, accepted, table) ==
  /\ Len(created) = accepted
  /\ \A i \in 1..Len(created) : created[i].unique_id = M + i
  /\ \A i \in 1..Len(created) : \E a \in Range(table) : a = created[i]
  /\ MaxOf({ a.unique_id : a \in Range(table) }) = M + accepted

\* C30: an upload that runs alone against a table whose highest unique_id is M
\* gives its accepted rows the ids M+1, M+2, ... in row order; a rejected, skipped
\* or rolled-back row takes no id, so that after every row and at the answer the
\* highest unique_id of the table is M plus the number of accepted rows.
C30_ConsecutiveIds ==
  [][\A p \in Procs : Uploading(p) =>
       LET M == RunBase(p)
       IN  IF Uploading(p)'
           THEN ConsecutiveFrom(M, loc'[p].created, loc'[p].accepted, athletes')
           ELSE /\ MaxOf({ a.unique_id : a \in Range(athletes') }) = M + resp'.body.accepted
                /\ IsApi(resp'.op) =>
                     ConsecutiveFrom(M, resp'.body.athletes, resp'.body.accepted, athletes')]_vars

\* An upload of two rows into a table whose highest unique_id is 2 has answered:
\* one row was rolled back or skipped, the other holds unique_id 3.
C30_Witness ==
  /\ pc["p1"] = "idle"
  /\ resp.op = "upload_excel"
  /\ resp.status = "200"
  /\ resp.body.accepted = 1
  /\ resp.body.rejected = 1
  /\ resp.body.athletes[1].unique_id = 3
  /\ Len(athletes) = 2
====
